---- MODULE Spec2Model ----
(***************************************************************************)
(* Social Growth Suite: the background execution core.                     *)
(*                                                                         *)
(*   Spec        the scheduled-post dispatch job (SchedulerService) with   *)
(*               the cron ticks that start it, the scheduled_posts rows    *)
(*               it reads and writes, and the platform publish call.       *)
(*   FairSpec    the same job with the fairness of the cron timer, of the  *)
(*               event loop and of a store that does not fail for ever.    *)
(*   SpecLimiter the request rate limiter (createRateLimit) over the       *)
(*               Redis counter store.                                      *)
(*   SpecKeys    the limiter configurations as the application mounts      *)
(*               them (apiLimiter on /api, authLimiter on the auth         *)
(*               routes) and the keys they count under.                    *)
(*   SpecNotify  the notification service: the durable notifications       *)
(*               table, the rules, and the bounded real-time set in Redis. *)
(*   SpecPair    the same with at most two calls in progress at once.      *)
(*   SpecRules   createNotification one call at a time, under any stored   *)
(*               rules.                                                    *)
(*   SpecUnread  the read state of the durable rows: createNotification    *)
(*               one call at a time, markAllAsRead and getUnreadCount.     *)
(*   SpecFaults  createNotification one call at a time, with a store and   *)
(*               a cache that throw.                                       *)
(*   SpecMark    createNotification one call at a time, markAsRead and     *)
(*               markAllAsRead.                                            *)
(*   SpecOwn     the same for the notifications of two users.              *)
(*   SpecList    createNotification one call at a time, markAllAsRead and  *)
(*               getNotifications.                                         *)
(*   SpecJobs    SchedulerService.start and stop with the three jobs:      *)
(*               dispatch, metrics collection and the retention sweep.     *)
(*   SpecSweep   the retention sweep beside the dispatch job, with rows    *)
(*               growing old.                                              *)
(*   SpecSelect  the query of the dispatch job over tables of rows with    *)
(*               scheduled times.                                          *)
(*   SpecOwner   the dispatch job and PUT /:postId of the posts routes.    *)
(*   SpecMetrics metrics collection over the days, on analytics_data as    *)
(*               either schema creates it.                                 *)
(*   SpecAccounts the dispatch job and metrics collection with accounts    *)
(*               switched on and off.                                      *)
(*   SpecDelete  the dispatch job and DELETE /:postId of the posts routes. *)
(*   SpecChat    ChatbotService.processMessage for concurrent messages of  *)
(*               one user handle.                                          *)
(*   FairStop    start and stop beside the dispatch job, with the event    *)
(*               loop resuming every awaited call.                         *)
(*   FairOrphan  the dispatch job under the fairness of FairSpec, over     *)
(*               rows of which some reference no account.                  *)
(***************************************************************************)
EXTENDS Integers, Sequences, FiniteSets, TLC

\* ------------------------------------------------------------------------
\* Bounds of the model
\* ------------------------------------------------------------------------
\* rows of scheduled_posts, and invocations of the dispatch job that can be
\* in progress at once
MaxPosts == 2
MaxRuns == 2
\* the invocations in progress at once in the behaviours checked under
\* fairness, which have at most two rows
LiveRuns == 1
LivePosts == IF MaxPosts < 2 THEN MaxPosts ELSE 2

\* requests the limiter handles at once, the window of the limiter under
\* test in milliseconds, and its maxRequests
MaxReqs == 2
WindowMs == 2000
MaxRequests == 3

\* maxRequests of authLimiter and of apiLimiter, scaled down from 5 and 100
AuthMax == 2
ApiMax == 3

\* the capacity of the real-time set of a user, scaled down from 50; the
\* createNotification calls in progress at once, and the calls in all
RealTimeCap == 2
MaxCreators == 2
MaxCreates == 4

\* the pages a getNotifications call asks for
MaxPage == 3

\* the calls of SchedulerService.start, the days that pass during metrics
\* collection, the writes of an owner to the scheduled time of a post, and
\* the rows of scheduled_posts the dispatch query is applied to
MaxStarts == 2
MaxDays == 1
MaxEdits == 2
MaxRows == 12

\* the inbound messages of one user handle to one account within one hour
MaxMessages == 4

\* the rules of one PUT /rules body
MaxBodyRules == 2

\* LIMIT 10 of the dispatch query
BatchLimit == 10

PostIds == 1..MaxPosts
Runs == 1..MaxRuns
LivePostIds == 1..LivePosts
LiveRunIds == 1..LiveRuns

\* error_message IS NULL
NoError == ""
\* what publishPost throws: the error of the platform API call, or the
\* error of an unsupported platform
PublishErrors == {"api_error", "unsupported_platform"}
PublishOutcomes == {"ok"} \cup PublishErrors

VARIABLES
    redis,          \* the Redis keys of the limiter: value and time to live
    reqs,           \* the requests inside the limiter middleware
    hist,           \* history: per key, the outcomes since the window began
    overlapped,     \* history: per key, a read came between a read and its write
    faulted,        \* history: per key, a store call threw
    age,            \* history: per key, seconds since the last allowed call
    renewed         \* history: per key, a window ended after a denied call

limiterVars == <<redis, reqs, hist, overlapped, faulted, age, renewed>>

VARIABLES
    posts,          \* the scheduled_posts table, by id
    runs,           \* the invocations of processScheduledPosts
    attempted,      \* history: posts that publishPost was called for
    notifications   \* the durable notifications rows

dispatchVars == <<posts, runs, attempted, notifications>>

VARIABLES
    inflight,       \* the request between the app-level and the route-level limiter
    seen,           \* history: per configuration and request, the requests counted
    verdict         \* history: the last verdict of a limiter

pipelineVars == <<inflight, seen, verdict>>

VARIABLES
    rules,          \* the notification_rules rows, by user and type
    realtime,       \* the Redis sets notifications:<userId>
    calls,          \* the createNotification calls in progress
    now,            \* the millisecond of the last new Date()
    count,          \* what the last getUnreadCount returned, by user
    order,          \* history: per user, the entries in the order of insertion
    skipped         \* history: the (user, type) a call returned for at the rule check

notifyVars == <<rules, realtime, calls, now, count, order, skipped>>

VARIABLES
    marked,         \* history: the last markAsRead or markAllAsRead call
    listing         \* the getNotifications call: its arguments and its result

readVars == <<marked, listing>>

VARIABLES
    jobs,           \* SchedulerService.jobs: the CronJob the map holds, by name
    cronJobs,       \* the CronJobs that are started and not stopped
    starts,         \* the calls of start() so far
    threw           \* history: flips when the action of a job raises an error

cronVars == <<jobs, cronJobs, starts, threw>>

VARIABLES
    collect,        \* the invocation of collectAnalytics
    accounts,       \* the social_accounts rows, by id
    metrics,        \* the analytics_data rows
    schema,         \* the statement that created analytics_data
    today,          \* CURRENT_DATE
    latest          \* history: per account, the value its last upsert of today carried

collectVars == <<collect, accounts, metrics, schema, today, latest>>

VARIABLES
    sweep,          \* the invocation of cleanupOldData
    expired,        \* per category, whether rows older than its retention exist
    created         \* per post, the days since its created_at

sweepVars == <<sweep, expired, created>>

VARIABLES
    edits,          \* the PUT /:postId request in progress
    revision        \* history: per post, the writes to its scheduled_time

ownerVars == <<edits, revision>>

VARIABLES
    table,          \* a scheduled_posts table: how many rows of each kind
    selection       \* the rows the dispatch query returns for it

selectVars == <<table, selection>>

VARIABLES
    orphans,        \* the posts whose account_id matches no row of social_accounts
    deleted         \* history: the posts DELETE /:postId has deleted

rowVars == <<orphans, deleted>>

VARIABLES
    halted          \* history: the invocations of the dispatch job that were
                    \* inside publishPost at the last call of stop()

VARIABLES
    chat,           \* the processMessage calls, one per inbound message
    chatKey         \* the Redis key rate_limit:<accountId>:<userHandle>

chatVars == <<chat, chatKey>>

VARIABLES
    faults,         \* history: the steps of createNotification that have thrown
    escaped         \* history: an error of createNotification reached its caller

faultVars == <<faults, escaped>>

VARIABLES
    report          \* the rules the last getNotificationRules returned

lateVars == <<chatVars, faultVars, report>>

\* the state beside the three jobs and the posts routes
moreVars == <<rowVars, halted, lateVars>>

jobVars == <<cronVars, collectVars, sweepVars, ownerVars, selectVars, moreVars>>

\* what the dispatch job, the limiter under test, the mounted limiters, the
\* notification service and its read operations leave alone
outsideScheduler == <<limiterVars, pipelineVars, notifyVars, readVars>>
outsideDispatch == <<outsideScheduler, jobVars>>
outsideLimiter == <<dispatchVars, pipelineVars, notifyVars, readVars, jobVars>>
outsidePipeline == <<reqs, hist, overlapped, faulted, age, renewed,
                     dispatchVars, notifyVars, readVars, jobVars>>
outsideNotify == <<posts, runs, attempted, limiterVars, pipelineVars, readVars,
                   jobVars>>
outsideRead == <<posts, runs, attempted, limiterVars, pipelineVars, notifyVars,
                 jobVars>>

\* due:       scheduled_time <= NOW()
\* posted_at: "NULL", or "NOW" for the NOW() of the statement that set it
AbsentRow == [status |-> "absent", due |-> FALSE,
              posted_at |-> "NULL", error_message |-> NoError]

\* batch: the selected rows the for loop has not finished, current row first
\* out:   what publishPost did for the current row
IdleRun == [pc |-> "idle", batch |-> <<>>, out |-> "none"]

Min(a, b) == IF a <= b THEN a ELSE b

\* the least element of a set of positive numbers, 0 for the empty set
Least(S) == IF S = {} THEN 0
            ELSE CHOOSE x \in S : \A y \in S : x <= y

\* ------------------------------------------------------------------------
\* routes/posts: POST /  (schedule a post)
\* ------------------------------------------------------------------------
NextPostId(ids) == Least({p \in ids : posts[p].status = "absent"})

\* the route rejects a scheduled time that is not in the future, so the new
\* row is not due
CreatePost(ids) ==
    /\ NextPostId(ids) # 0
    /\ posts' = [posts EXCEPT ![NextPostId(ids)] =
                    [status |-> "pending", due |-> FALSE,
                     posted_at |-> "NULL", error_message |-> NoError]]
    /\ UNCHANGED <<runs, attempted, notifications, outsideDispatch>>

\* NOW() reaches the scheduled_time of a row
BecomeDue(p) ==
    /\ posts[p].status # "absent"
    /\ ~posts[p].due
    /\ posts' = [posts EXCEPT ![p].due = TRUE]
    /\ UNCHANGED <<runs, attempted, notifications, outsideDispatch>>

\* ------------------------------------------------------------------------
\* SchedulerService.start: the cron timer of postSchedulerJob
\* ------------------------------------------------------------------------
FreeRun(slots) == Least({r \in slots : runs[r].pc = "idle"})

\* ------------------------------------------------------------------------
\* SchedulerService.processScheduledPosts
\* ------------------------------------------------------------------------
IsDue(p) ==
    /\ posts[p].status = "pending"
    /\ posts[p].due

\* JOIN social_accounts sa ON sp.account_id = sa.id: an inner join, so a row
\* of scheduled_posts is in the result with the row of its account only
Joined(p) == p \notin orphans

DuePosts == {p \in PostIds : IsDue(p) /\ Joined(p)}

\* ORDER BY scheduled_time ASC: the rows in one of the orders the query can
\* return them in (the scheduled times of the due rows are not kept, so any
\* order of the due rows is possible)
OrderedRows(S) ==
    {s \in [1..Cardinality(S) -> S] :
        \A i, j \in 1..Cardinality(S) : i # j => s[i] # s[j]}

Limit(s, n) == SubSeq(s, 1, Min(Len(s), n))

CurrentPost(r) == Head(runs[r].batch)

\* after one row of the for loop: the next row, or the end of the loop and
\* the return of the invocation
NextRow(run) ==
    IF Len(run.batch) > 1
    THEN [pc |-> "publish", batch |-> Tail(run.batch), out |-> "none"]
    ELSE IdleRun

\* The timer fires its callback on every tick; the callback starts
\* processScheduledPosts whether or not an earlier invocation has returned,
\* and the invocation runs its SELECT.
Tick(slots) ==
    /\ FreeRun(slots) # 0
    /\ \E rows \in OrderedRows(DuePosts) :
          LET batch == Limit(rows, BatchLimit) IN
          runs' = [runs EXCEPT ![FreeRun(slots)] =
                      IF Len(batch) = 0 THEN IdleRun
                      ELSE [pc |-> "publish", batch |-> batch, out |-> "none"]]
    /\ UNCHANGED <<posts, attempted, notifications, outsideDispatch>>

\* a tick whose SELECT throws: the outer catch logs it and the invocation
\* returns
TickSelectThrows(slots) ==
    /\ FreeRun(slots) # 0
    /\ UNCHANGED <<posts, runs, attempted, notifications, outsideDispatch>>

\* await SocialMediaService.publishPost(post), on the row as it was selected
Publish(r, out) ==
    /\ runs[r].pc = "publish"
    /\ attempted' = attempted \cup {CurrentPost(r)}
    /\ runs' = [runs EXCEPT ![r] =
                  [@ EXCEPT !.out = out,
                            !.pc = IF out = "ok" THEN "upd_published"
                                                 ELSE "upd_failed"]]
    /\ UNCHANGED <<posts, notifications, outsideDispatch>>

\* UPDATE scheduled_posts SET status = 'published', posted_at = NOW()
MarkPublished(row) ==
    IF row.status = "absent" THEN row
    ELSE [row EXCEPT !.status = "published", !.posted_at = "NOW"]

\* the mutation: a failed attempt leaves the row to be retried
MarkFailedRetry(row) ==
    IF row.status = "absent" THEN row
    ELSE [row EXCEPT !.status = "pending"]

\* UPDATE scheduled_posts SET status = 'failed'
MarkFailed(row) ==
    IF row.status = "absent" THEN row
    ELSE [row EXCEPT !.status = "failed"]

UpdatePublished(r) ==
    /\ runs[r].pc = "upd_published"
    /\ posts' = [posts EXCEPT ![CurrentPost(r)] = MarkPublished(@)]
    /\ runs' = [runs EXCEPT ![r] = NextRow(@)]
    /\ UNCHANGED <<attempted, notifications, outsideDispatch>>

\* the UPDATE to 'published' throws: the inner catch takes over
UpdatePublishedThrows(r) ==
    /\ runs[r].pc = "upd_published"
    /\ runs' = [runs EXCEPT ![r] = [@ EXCEPT !.pc = "upd_failed"]]
    /\ UNCHANGED <<posts, attempted, notifications, outsideDispatch>>

UpdateFailed(r) ==
    /\ runs[r].pc = "upd_failed"
    /\ posts' = [posts EXCEPT ![CurrentPost(r)] = MarkFailed(@)]
    /\ runs' = [runs EXCEPT ![r] = NextRow(@)]
    /\ UNCHANGED <<attempted, notifications, outsideDispatch>>

\* the UPDATE inside the inner catch throws: the error leaves the for loop,
\* the outer catch logs it and the invocation returns
UpdateFailedThrows(r) ==
    /\ runs[r].pc = "upd_failed"
    /\ runs' = [runs EXCEPT ![r] = IdleRun]
    /\ UNCHANGED <<posts, attempted, notifications, outsideDispatch>>

\* ------------------------------------------------------------------------
\* middleware/rateLimiter: generateKey
\* ------------------------------------------------------------------------
\* the requests of the model: req.ip, req.user?.id ("" when the request is
\* not authenticated) and the route path
Requests == {[ip |-> "10.0.0.1", userId |-> "", path |-> "/login"]}

OrElse(a, b) == IF a # "" THEN a ELSE b

generateKey(req) ==
    LET ip == OrElse(req.ip, "unknown")
        userId == OrElse(req.userId, "anonymous")
        route == req.path
    IN ip \o ":" \o userId \o ":" \o route

requestsKey(req) == "rate_limit:" \o generateKey(req)

LimiterKeys == {requestsKey(req) : req \in Requests}

\* ------------------------------------------------------------------------
\* RedisService.get / set, and the strings the limiter stores
\* ------------------------------------------------------------------------
Digits == <<"0", "1", "2", "3", "4", "5", "6", "7", "8", "9">>

DigitValue(c) == CHOOSE d \in 0..9 : Digits[d + 1] = c

\* Number.prototype.toString of a non-negative integer, as its characters
RECURSIVE NumberToString(_)
NumberToString(n) ==
    IF n < 10 THEN <<Digits[n + 1]>>
    ELSE Append(NumberToString(n \div 10), Digits[(n % 10) + 1])

\* parseInt of a string of decimal digits
RECURSIVE ParseInt(_)
ParseInt(str) ==
    IF Len(str) = 1 THEN DigitValue(str[1])
    ELSE 10 * ParseInt(SubSeq(str, 1, Len(str) - 1)) + DigitValue(str[Len(str)])

\* a key that does not exist (GET returns null)
NoKey == [value |-> <<>>, ttl |-> 0]

\* client.get(key)
RedisGet(key) == redis[key].value

\* client.setEx(key, expireInSeconds, value)
RedisSetEx(key, seconds, value) ==
    [redis EXCEPT ![key] = [value |-> value, ttl |-> seconds]]

\* Math.ceil(windowMs / 1000)
WindowSeconds == (WindowMs + 999) \div 1000

\* requests ? parseInt(requests) : 0
CurrentRequests(requests) ==
    IF requests = <<>> THEN 0 ELSE ParseInt(requests)

\* the mutation: the comparison lets one request more through
LimitExceededOffByOne(currentRequests) == currentRequests > MaxRequests

\* if (currentRequests >= maxRequests)
LimitExceeded(currentRequests) == currentRequests >= MaxRequests

\* ------------------------------------------------------------------------
\* middleware/rateLimiter: the middleware returned by createRateLimit
\* ------------------------------------------------------------------------
ReqSlots == 1..MaxReqs

IdleReq == [pc |-> "idle", key |-> "", newCount |-> 0]

\* the calls the history of one window can hold
MaxCalls == MaxRequests + 2

Writing(key) == {q \in ReqSlots : reqs[q].pc = "set" /\ reqs[q].key = key}

CanCall(key) == Len(hist[key]) + Cardinality(Writing(key)) < MaxCalls

Record(key, allowed) == [hist EXCEPT ![key] = Append(@, allowed)]

\* no call was allowed in the window so far
NoAge == -1

\* the verdicts of the middleware: next() is called, or the response is
\* res.status(429)
CalledNext == TRUE
Answered429 == FALSE

\* the mutation: the catch block answers 429
OnStoreErrorFailsClosed == Answered429

\* catch (error) { console.error(...); next(); }
OnStoreError == CalledNext

\* the mutation: the 429 branch writes the counter back with a new time to
\* live
OnDeniedRenews(store, key) == [store EXCEPT ![key].ttl = WindowSeconds]

\* the 429 branch sets three headers and returns the response: it issues no
\* command to the store
OnDenied(store, key) == store

\* the request reaches the middleware; GET returns the counter; at the limit
\* the request is answered with 429
GetDenied(q, req) ==
    LET key == requestsKey(req) IN
    /\ reqs[q].pc = "idle"
    /\ CanCall(key)
    /\ LimitExceeded(CurrentRequests(RedisGet(key)))
    /\ redis' = OnDenied(redis, key)
    /\ hist' = Record(key, Answered429)
    /\ overlapped' = [overlapped EXCEPT ![key] = @ \/ Writing(key) # {}]
    /\ UNCHANGED <<reqs, faulted, age, renewed, outsideLimiter>>

\* below the limit the middleware goes on to write the incremented counter
GetAllowed(q, req) ==
    LET key == requestsKey(req) IN
    /\ reqs[q].pc = "idle"
    /\ CanCall(key)
    /\ ~LimitExceeded(CurrentRequests(RedisGet(key)))
    /\ reqs' = [reqs EXCEPT ![q] =
                  [pc |-> "set", key |-> key,
                   newCount |-> CurrentRequests(RedisGet(key)) + 1]]
    /\ overlapped' = [overlapped EXCEPT ![key] = @ \/ Writing(key) # {}]
    /\ UNCHANGED <<redis, hist, faulted, age, renewed, outsideLimiter>>

\* GET throws: the catch block calls next()
GetThrows(q, req) ==
    LET key == requestsKey(req) IN
    /\ reqs[q].pc = "idle"
    /\ CanCall(key)
    /\ hist' = Record(key, OnStoreError)
    /\ faulted' = [faulted EXCEPT ![key] = TRUE]
    /\ age' = [age EXCEPT ![key] = 0]
    /\ UNCHANGED <<redis, reqs, overlapped, renewed, outsideLimiter>>

\* SETEX of the new count with the window as time to live, then next()
SetCount(q) ==
    /\ reqs[q].pc = "set"
    /\ redis' = RedisSetEx(reqs[q].key, WindowSeconds,
                           NumberToString(reqs[q].newCount))
    /\ hist' = Record(reqs[q].key, CalledNext)
    /\ age' = [age EXCEPT ![reqs[q].key] = 0]
    /\ reqs' = [reqs EXCEPT ![q] = IdleReq]
    /\ UNCHANGED <<overlapped, faulted, renewed, outsideLimiter>>

\* SETEX throws: the catch block calls next()
SetThrows(q) ==
    /\ reqs[q].pc = "set"
    /\ hist' = Record(reqs[q].key, OnStoreError)
    /\ faulted' = [faulted EXCEPT ![reqs[q].key] = TRUE]
    /\ age' = [age EXCEPT ![reqs[q].key] = 0]
    /\ reqs' = [reqs EXCEPT ![q] = IdleReq]
    /\ UNCHANGED <<redis, overlapped, renewed, outsideLimiter>>

\* One second passes: every time to live counts down and Redis deletes the
\* keys that expire.  For the history, the window of a key has elapsed when
\* windowMs have passed since the last allowed call and no write is under
\* way; its history then starts again.
WindowElapsed(key) ==
    /\ age[key] # NoAge
    /\ (age[key] + 1) * 1000 >= WindowMs
    /\ Writing(key) = {}

SecondPasses ==
    /\ \E key \in LimiterKeys : redis[key].ttl > 0 \/ age[key] # NoAge
    /\ redis' = [key \in LimiterKeys |->
                    IF redis[key].ttl <= 1 THEN NoKey
                    ELSE [redis[key] EXCEPT !.ttl = @ - 1]]
    /\ hist' = [key \in LimiterKeys |->
                    IF WindowElapsed(key) THEN <<>> ELSE hist[key]]
    /\ overlapped' = [key \in LimiterKeys |->
                    IF WindowElapsed(key) THEN FALSE ELSE overlapped[key]]
    /\ faulted' = [key \in LimiterKeys |->
                    IF WindowElapsed(key) THEN FALSE ELSE faulted[key]]
    /\ renewed' = [key \in LimiterKeys |->
                    IF WindowElapsed(key)
                    THEN \E i \in 1..Len(hist[key]) : ~hist[key][i]
                    ELSE renewed[key]]
    /\ age' = [key \in LimiterKeys |->
                    IF age[key] = NoAge \/ WindowElapsed(key) THEN NoAge
                    ELSE IF (age[key] + 1) * 1000 >= WindowMs THEN age[key]
                    ELSE age[key] + 1]
    /\ UNCHANGED <<reqs, outsideLimiter>>

LimiterInit ==
    /\ redis = [key \in LimiterKeys |-> NoKey]
    /\ reqs = [q \in ReqSlots |-> IdleReq]
    /\ hist = [key \in LimiterKeys |-> <<>>]
    /\ overlapped = [key \in LimiterKeys |-> FALSE]
    /\ faulted = [key \in LimiterKeys |-> FALSE]
    /\ age = [key \in LimiterKeys |-> NoAge]
    /\ renewed = [key \in LimiterKeys |-> FALSE]

LimiterNext ==
    \/ \E q \in ReqSlots, req \in Requests : GetDenied(q, req)
    \/ \E q \in ReqSlots, req \in Requests : GetAllowed(q, req)
    \/ \E q \in ReqSlots, req \in Requests : GetThrows(q, req)
    \/ \E q \in ReqSlots : SetCount(q)
    \/ \E q \in ReqSlots : SetThrows(q)
    \/ SecondPasses

\* ------------------------------------------------------------------------
\* The limiter configurations and where index.ts and routes/auth mount them
\* ------------------------------------------------------------------------
authLimiter == [name |-> "authLimiter", windowMs |-> 15 * 60 * 1000,
                maxRequests |-> AuthMax]

apiLimiter == [name |-> "apiLimiter", windowMs |-> 15 * 60 * 1000,
               maxRequests |-> ApiMax]

LimiterNames == {authLimiter.name, apiLimiter.name}

\* The HTTP requests of the model: the address of the client, the user of
\* its bearer token ("" without a token), the path below /api, and the path
\* of the route that handles it ("" when no route matches).
HttpRequests ==
    {[ip |-> "10.0.0.1", token |-> "", path |-> "/auth/login", route |-> "/login"],
     [ip |-> "10.0.0.1", token |-> "", path |-> "/login", route |-> ""],
     [ip |-> "10.0.0.1", token |-> "7", path |-> "/accounts", route |-> "/"],
     [ip |-> "10.0.0.1", token |-> "8", path |-> "/accounts", route |-> "/"],
     [ip |-> "10.0.0.2", token |-> "7", path |-> "/accounts", route |-> "/"]}

NoRequest == [ip |-> "", token |-> "", path |-> "", route |-> ""]

\* router.post('/register', authLimiter, ...), router.post('/login', authLimiter, ...)
AuthLimited(h) == h.path \in {"/auth/register", "/auth/login"}

\* The request as app.use('/api', apiLimiter) sees it: authenticateToken has
\* not run, so req.user is undefined; no route is matched yet, so req.route
\* is undefined and req.path is the path below the mount point.
AtApp(h) == [ip |-> h.ip, userId |-> "", path |-> h.path]

\* The request as authLimiter sees it in the auth router: req.route.path is
\* the path of the route; the auth routes do not run authenticateToken.
AtRoute(h) == [ip |-> h.ip, userId |-> "", path |-> h.route]

\* the request object a configuration builds its key from
ViewOf(name, h) == IF name = apiLimiter.name THEN AtApp(h) ELSE AtRoute(h)

KeyOf(name, h) == requestsKey(ViewOf(name, h))

PipelineKeys == {KeyOf(name, h) : name \in LimiterNames, h \in HttpRequests}

\* if (currentRequests >= maxRequests), for a configuration
AtLimit(limiter, currentRequests) == currentRequests >= limiter.maxRequests

\* Math.ceil(windowMs / 1000), for a configuration
SecondsOf(limiter) == (limiter.windowMs + 999) \div 1000

NoVerdict == [by |-> "", req |-> NoRequest, status |-> 0]

\* One pass of a request through the middleware of a configuration, with
\* its store calls succeeding: 429 at the limit, else the counter is written
\* and next() is called.
RateLimit(limiter, h) ==
    LET key == KeyOf(limiter.name, h)
        currentRequests == CurrentRequests(RedisGet(key))
    IN IF AtLimit(limiter, currentRequests)
       THEN /\ verdict' = [by |-> limiter.name, req |-> h, status |-> 429]
            /\ UNCHANGED <<redis, seen>>
       ELSE /\ redis' = RedisSetEx(key, SecondsOf(limiter),
                                   NumberToString(currentRequests + 1))
            /\ seen' = [seen EXCEPT ![limiter.name][h] = @ + 1]
            /\ verdict' = [by |-> limiter.name, req |-> h, status |-> 200]

\* app.use('/api', apiLimiter): every request below /api
ApiLimit(h) ==
    /\ inflight = NoRequest
    /\ RateLimit(apiLimiter, h)
    /\ inflight' = IF verdict'.status # 429 /\ AuthLimited(h) THEN h ELSE NoRequest
    /\ UNCHANGED outsidePipeline

\* authLimiter in front of the handlers of /register and /login
AuthLimit ==
    /\ inflight # NoRequest
    /\ RateLimit(authLimiter, inflight)
    /\ inflight' = NoRequest
    /\ UNCHANGED outsidePipeline

PipelineInit ==
    /\ inflight = NoRequest
    /\ seen = [name \in LimiterNames |-> [h \in HttpRequests |-> 0]]
    /\ verdict = NoVerdict

PipelineNext ==
    \/ \E h \in HttpRequests : ApiLimit(h)
    \/ AuthLimit

\* ------------------------------------------------------------------------
\* NotificationService
\* ------------------------------------------------------------------------
Users == {1}

\* the users of the tables: the user of the calls, and a second user
AllUsers == Users \cup {2}

NotificationTypes == {"post_published", "post_failed"}

\* type NotificationType: high_engagement, account_disconnected,
\* growth_milestone, negative_sentiment and system_alert appear in the code
\* wherever post_published does and with the same default, and stand with it
AllTypes == NotificationTypes \cup {"low_engagement"}

\* no getNotificationRules has returned
NoReport == [userId |-> 0, rules |-> {}]

Creators == 1..MaxCreators

\* the rows SELECT enabled FROM notification_rules WHERE user_id AND type
\* can return: UNIQUE(user_id, type) leaves at most one
RuleRows == {<<>>, <<[enabled |-> TRUE]>>, <<[enabled |-> FALSE]>>}

\* the mutation: a type without a rule counts as disabled
IsEnabledNeedsRule(ruleRows) == Len(ruleRows) # 0 /\ ruleRows[1].enabled

\* const isEnabled = ruleResult.rows.length === 0 || ruleResult.rows[0].enabled
IsEnabled(ruleRows) == Len(ruleRows) = 0 \/ ruleRows[1].enabled

IdleCall == [pc |-> "idle", userId |-> 0, type |-> "", entry |-> <<>>,
             oldest |-> {}]

\* the createNotification calls begun so far
Begun == Len(notifications) + Cardinality({c \in Creators : calls[c].pc = "insert"})

\* the mutation: the table keeps the newest RealTimeCap rows only
InsertRowCapped(rows, userId, type) ==
    LET all == Append(rows, [user_id |-> userId, type |-> type, is_read |-> FALSE])
    IN IF Len(all) > RealTimeCap THEN Tail(all) ELSE all

\* INSERT INTO notifications (user_id, type, ...): is_read defaults to false
InsertRow(rows, userId, type) ==
    Append(rows, [user_id |-> userId, type |-> type, is_read |-> FALSE])

\* JSON.stringify({type, title, message, data, timestamp}): the title, the
\* message and the data are those of the type; two entries are the same
\* string exactly when type and timestamp agree
NotificationData(type, timestamp) == <<type, timestamp>>

\* the rule lookup: a disabled type returns, any other goes on to the insert
CheckRule(c, userId, type) ==
    /\ calls[c].pc = "idle"
    /\ Begun < MaxCreates
    /\ IF IsEnabled(rules[userId][type])
       THEN /\ calls' = [calls EXCEPT ![c] =
                           [IdleCall EXCEPT !.pc = "insert", !.userId = userId,
                                            !.type = type]]
            /\ UNCHANGED skipped
       ELSE /\ skipped' = skipped \cup {<<userId, type>>}
            /\ UNCHANGED calls
    /\ UNCHANGED <<notifications, rules, realtime, now, count, order, outsideNotify>>

\* the durable row
Insert(c) ==
    /\ calls[c].pc = "insert"
    /\ notifications' = InsertRow(notifications, calls[c].userId, calls[c].type)
    /\ calls' = [calls EXCEPT ![c].pc = "add"]
    /\ UNCHANGED <<rules, realtime, now, count, order, skipped, outsideNotify>>

\* new Date() is read in the millisecond of the last reading or in a later
\* one, and SADD adds the string to the set of the user
Add(c, timestamp) ==
    LET userId == calls[c].userId
        entry == NotificationData(calls[c].type, timestamp)
    IN /\ calls[c].pc = "add"
       /\ timestamp \in {now, now + 1}
       /\ now' = timestamp
       /\ realtime' = [realtime EXCEPT ![userId] = @ \cup {entry}]
       /\ order' = IF entry \in realtime[userId] THEN order
                   ELSE [order EXCEPT ![userId] =
                           Append(SelectSeq(@, LAMBDA e : e # entry), entry)]
       /\ calls' = [calls EXCEPT ![c].pc = "read", ![c].entry = entry]
       /\ UNCHANGED <<notifications, rules, count, skipped, outsideNotify>>

\* SMEMBERS of the set of the user of a call
Members(c) == IF calls[c].pc = "idle" THEN {} ELSE realtime[calls[c].userId]

\* SMEMBERS returns the members in an order Redis does not specify, so
\* notifications.slice(0, notifications.length - 50) is any choice of that
\* many members
Read(c, oldest) ==
    LET members == Members(c) IN
    /\ calls[c].pc = "read"
    /\ oldest \subseteq members
    /\ IF Cardinality(members) > RealTimeCap
       THEN /\ Cardinality(oldest) = Cardinality(members) - RealTimeCap
            /\ calls' = [calls EXCEPT ![c].pc = "trim", ![c].oldest = oldest]
       ELSE /\ oldest = {}
            /\ calls' = [calls EXCEPT ![c] = IdleCall]
    /\ UNCHANGED <<notifications, rules, realtime, now, count, order, skipped,
                   outsideNotify>>

\* one SREM of the loop; the call returns after the last
Remove(c, oldNotification) ==
    /\ calls[c].pc = "trim"
    /\ oldNotification \in calls[c].oldest
    /\ realtime' = [realtime EXCEPT ![calls[c].userId] = @ \ {oldNotification}]
    /\ calls' = [calls EXCEPT ![c] =
                    IF calls[c].oldest = {oldNotification} THEN IdleCall
                    ELSE [@ EXCEPT !.oldest = @ \ {oldNotification}]]
    /\ UNCHANGED <<notifications, rules, now, count, order, skipped, outsideNotify>>

\* the mutation: the catch block throws the error again
Rethrown(e) == TRUE

\* catch (error) { console.error('Error creating notification:', error); }
\* around the whole body: the promise of the call resolves
Swallowed(e) == e

outsideFaults == <<posts, runs, attempted, limiterVars, pipelineVars, readVars,
                   cronVars, collectVars, sweepVars, ownerVars, selectVars,
                   rowVars, halted, chatVars, report>>

\* the SELECT of the rule throws: the call returns
CheckRuleThrows(c) ==
    /\ calls[c].pc = "idle"
    /\ Begun < MaxCreates
    /\ faults' = faults \cup {"rule"}
    /\ escaped' = Swallowed(escaped)
    /\ UNCHANGED <<notifications, notifyVars, outsideFaults>>

\* the INSERT, SADD, SMEMBERS or an SREM throws: the call returns, and what
\* it has written stays as it is
CreateThrows(c) ==
    /\ calls[c].pc # "idle"
    /\ faults' = faults \cup {calls[c].pc}
    /\ escaped' = Swallowed(escaped)
    /\ calls' = [calls EXCEPT ![c] = IdleCall]
    /\ UNCHANGED <<notifications, rules, realtime, now, count, order, skipped,
                   outsideFaults>>

\* the id of a row is its place in the table: id SERIAL, and no row of the
\* table is deleted here
RowIds(rows) == 1..Len(rows)

\* the rows of the table in the behaviours with markAsRead and with
\* getNotifications
ReadRows == IF MaxCreates < 4 THEN MaxCreates ELSE 4

\* the notificationIds of a request: up to two ids, of rows or of no row
IdSets == {ids \in SUBSET (1..(ReadRows + 1)) : Cardinality(ids) <= 2}

NoMark == [op |-> "none", userId |-> 0, ids |-> {}, len |-> 0, again |-> FALSE]

\* the record of a call: again tells that the call before it was the same
\* call and that no row was inserted in between
Mark(op, userId, ids) ==
    [op |-> op, userId |-> userId, ids |-> ids, len |-> Len(notifications),
     again |-> /\ marked.op = op
               /\ marked.userId = userId
               /\ marked.ids = ids
               /\ marked.len = Len(notifications)]

\* the mutation: the statement flips is_read
MarkedAsReadFlips(rows, userId, ids) ==
    [n \in RowIds(rows) |->
        IF rows[n].user_id = userId /\ n \in ids
        THEN [rows[n] EXCEPT !.is_read = ~@]
        ELSE rows[n]]

\* UPDATE notifications SET is_read = true WHERE user_id = $1 AND id = ANY($2)
MarkedAsRead(rows, userId, ids) ==
    [n \in RowIds(rows) |->
        IF rows[n].user_id = userId /\ n \in ids
        THEN [rows[n] EXCEPT !.is_read = TRUE]
        ELSE rows[n]]

MarkAsRead(userId, notificationIds) ==
    /\ notifications' = MarkedAsRead(notifications, userId, notificationIds)
    /\ marked' = Mark("markAsRead", userId, notificationIds)
    /\ UNCHANGED <<listing, outsideRead>>

\* the mutation: the statement has no condition on user_id
MarkedAllAsReadOfAnyUser(rows, userId) ==
    [n \in RowIds(rows) |-> [rows[n] EXCEPT !.is_read = TRUE]]

\* UPDATE notifications SET is_read = true WHERE user_id = $1 AND is_read = false
MarkedAllAsRead(rows, userId) ==
    [n \in RowIds(rows) |->
        IF rows[n].user_id = userId /\ ~rows[n].is_read
        THEN [rows[n] EXCEPT !.is_read = TRUE]
        ELSE rows[n]]

MarkAllAsRead(userId) ==
    /\ notifications' = MarkedAllAsRead(notifications, userId)
    /\ marked' = Mark("markAllAsRead", userId, {})
    /\ UNCHANGED <<listing, outsideRead>>

\* SELECT COUNT(*) FROM notifications WHERE user_id = $1 AND is_read = false
Unread(userId) ==
    {n \in 1..Len(notifications) :
        notifications[n].user_id = userId /\ ~notifications[n].is_read}

GetUnreadCount(userId) ==
    /\ count' = [count EXCEPT ![userId] =
                    ParseInt(NumberToString(Cardinality(Unread(userId))))]
    /\ UNCHANGED <<notifications, rules, realtime, calls, now, order, skipped,
                   outsideNotify>>

\* the query throws: catch (error) { ...; return 0; }
GetUnreadCountThrows(userId) ==
    /\ count' = [count EXCEPT ![userId] = 0]
    /\ UNCHANGED <<notifications, rules, realtime, calls, now, order, skipped,
                   outsideNotify>>

NoCount == -1

\* ------------------------------------------------------------------------
\* NotificationService.getNotifications
\* ------------------------------------------------------------------------
IdleListing == [pc |-> "idle", userId |-> 0, page |-> 0, limit |-> 0,
                unreadOnly |-> FALSE, rows |-> <<>>, totalCount |-> 0,
                totalPages |-> 0, hasNext |-> FALSE, hasPrev |-> FALSE]

\* WHERE user_id = $1, and AND is_read = false for unreadOnly
WhereClause(rows, userId, unreadOnly) ==
    {n \in RowIds(rows) :
        /\ rows[n].user_id = userId
        /\ unreadOnly => ~rows[n].is_read}

\* ORDER BY created_at DESC: created_at is the CURRENT_TIMESTAMP of the
\* insert, so a row with a greater id is not older
RECURSIVE OrderByCreatedAtDesc(_)
OrderByCreatedAtDesc(S) ==
    IF S = {} THEN <<>>
    ELSE LET newest == CHOOSE n \in S : \A m \in S : m <= n
         IN <<newest>> \o OrderByCreatedAtDesc(S \ {newest})

\* LIMIT $2 OFFSET $3
LimitOffset(s, limit, offset) ==
    SubSeq(s, offset + 1, Min(Len(s), offset + limit))

\* Math.ceil(totalCount / limit)
Ceil(totalCount, limit) == (totalCount + limit - 1) \div limit

\* the mutation: a page before the last reports no next page
HasNextBeforeLast(page, totalPages) == page + 1 < totalPages

\* hasNext: page < totalPages
HasNext(page, totalPages) == page < totalPages

\* hasPrev: page > 1
HasPrev(page) == page > 1

\* the call computes the offset and runs the SELECT of the page
SelectPage(userId, page, limit, unreadOnly) ==
    LET offset == (page - 1) * limit IN
    /\ listing.pc \in {"idle", "done"}
    /\ listing' = [IdleListing EXCEPT
                      !.pc = "count", !.userId = userId, !.page = page,
                      !.limit = limit, !.unreadOnly = unreadOnly,
                      !.rows = LimitOffset(
                                  OrderByCreatedAtDesc(
                                      WhereClause(notifications, userId, unreadOnly)),
                                  limit, offset)]
    /\ UNCHANGED <<notifications, marked, outsideRead>>

\* the SELECT COUNT(*) with the same where clause, and the return
CountRows ==
    LET totalCount == ParseInt(NumberToString(Cardinality(
                          WhereClause(notifications, listing.userId,
                                      listing.unreadOnly))))
        totalPages == Ceil(totalCount, listing.limit)
    IN /\ listing.pc = "count"
       /\ listing' = [listing EXCEPT
                         !.pc = "done", !.totalCount = totalCount,
                         !.totalPages = totalPages,
                         !.hasNext = HasNext(listing.page, totalPages),
                         !.hasPrev = HasPrev(listing.page)]
       /\ UNCHANGED <<notifications, marked, outsideRead>>

\* either query throws: the call logs the error and throws it again
ListThrows ==
    /\ listing.pc = "count"
    /\ listing' = IdleListing
    /\ UNCHANGED <<notifications, marked, outsideRead>>

ReadInit ==
    /\ marked = NoMark
    /\ listing = IdleListing

outsideReport == <<posts, runs, attempted, limiterVars, pipelineVars, readVars,
                   cronVars, collectVars, sweepVars, ownerVars, selectVars,
                   rowVars, halted, chatVars, faultVars>>

\* the rules arrays of the PUT /rules bodies
RuleBodies ==
    UNION {[1..n -> [type : AllTypes, enabled : BOOLEAN]] : n \in 0..MaxBodyRules}

\* INSERT INTO notification_rules (user_id, type, enabled, conditions)
\* ON CONFLICT (user_id, type) DO UPDATE SET enabled = $3
UpsertRule(stored, userId, rule) ==
    [stored EXCEPT ![userId][rule.type] = <<[enabled |-> rule.enabled]>>]

\* for (const rule of rules) await DatabaseService.query(...)
RECURSIVE UpsertAll(_, _, _)
UpsertAll(stored, userId, rs) ==
    IF rs = <<>> THEN stored
    ELSE UpsertAll(UpsertRule(stored, userId, Head(rs)), userId, Tail(rs))

UpdateNotificationRules(userId, rs) ==
    /\ rules' = UpsertAll(rules, userId, rs)
    /\ UNCHANGED <<notifications, realtime, calls, now, count, order, skipped,
                   report, outsideReport>>

\* the statement after the first `done` rules throws: the rules before it stay
\* stored, and the error is thrown on to the route
UpdateNotificationRulesThrows(userId, rs, done) ==
    /\ done < Len(rs)
    /\ rules' = UpsertAll(rules, userId, SubSeq(rs, 1, done))
    /\ UNCHANGED <<notifications, realtime, calls, now, count, order, skipped,
                   report, outsideReport>>

\* SELECT type, enabled, conditions FROM notification_rules WHERE user_id = $1
StoredRules(stored, userId) ==
    {[type |-> t, enabled |-> stored[userId][t][1].enabled] :
        t \in {ty \in AllTypes : stored[userId][ty] # <<>>}}

\* every type enabled, but low_engagement
GetDefaultNotificationRules ==
    {[type |-> t, enabled |-> (t # "low_engagement")] : t \in AllTypes}

\* the rows of the user, or the default rules when the user has none
GetNotificationRules(userId) ==
    /\ report' = [userId |-> userId,
                  rules |-> IF StoredRules(rules, userId) = {}
                            THEN GetDefaultNotificationRules
                            ELSE StoredRules(rules, userId)]
    /\ UNCHANGED <<notifications, rules, realtime, calls, now, count, order,
                   skipped, outsideReport>>

\* the SELECT throws: the catch returns the default rules
GetNotificationRulesThrows(userId) ==
    /\ report' = [userId |-> userId, rules |-> GetDefaultNotificationRules]
    /\ UNCHANGED <<notifications, rules, realtime, calls, now, count, order,
                   skipped, outsideReport>>

\* no rule is stored
NotifyInit ==
    /\ rules = [u \in AllUsers |-> [t \in AllTypes |-> <<>>]]
    /\ realtime = [u \in AllUsers |-> {}]
    /\ calls = [c \in Creators |-> IdleCall]
    /\ now = 0
    /\ count = [u \in AllUsers |-> NoCount]
    /\ order = [u \in AllUsers |-> <<>>]
    /\ skipped = {}

\* the steps of the createNotification calls in the slots cs, for
\* notifications of the given types to the given users
CreateFor(cs, users, types) ==
    \/ \E c \in cs, u \in users, t \in types : CheckRule(c, u, t)
    \/ \E c \in cs : Insert(c)
    \/ \E c \in cs, timestamp \in {now, now + 1} : Add(c, timestamp)
    \/ \E c \in cs : \E oldest \in SUBSET Members(c) : Read(c, oldest)
    \/ \E c \in cs : \E e \in calls[c].oldest : Remove(c, e)

CreateNext(cs, types) == CreateFor(cs, Users, types)

\* concurrent calls, all for notifications of one type
NotifyNext == CreateNext(Creators, {"post_failed"})

\* at most two concurrent calls, all for notifications of one type
PairNext == CreateNext({c \in Creators : c <= 2}, {"post_failed"})

\* one createNotification at a time
RulesNext == CreateNext({1}, NotificationTypes)

\* PUT /rules and GET /rules of user 1, GET /rules of a user without rules,
\* and one createNotification of the type the default rules disable
ReportNext ==
    \/ \E rs \in RuleBodies : UpdateNotificationRules(1, rs)
    \/ \E rs \in RuleBodies, done \in 0..MaxBodyRules :
          UpdateNotificationRulesThrows(1, rs, done)
    \/ \E u \in AllUsers : GetNotificationRules(u)
    \/ \E u \in AllUsers : GetNotificationRulesThrows(u)
    \/ CreateFor({1}, AllUsers, {"low_engagement"}) /\ Len(notifications') <= 1

\* one createNotification at a time, with statements and commands that throw
FaultsNext ==
    \/ CreateNext({1}, {"post_failed"})
    \/ CheckRuleThrows(1)
    \/ CreateThrows(1)

\* one createNotification at a time, and the read state of the rows
UnreadNext ==
    \/ CreateNext({1}, NotificationTypes)
    \/ \E u \in Users : MarkAllAsRead(u)
    \/ \E u \in Users : GetUnreadCount(u)
    \/ \E u \in Users : GetUnreadCountThrows(u)

\* ------------------------------------------------------------------------
\* SchedulerService.start and stop
\* ------------------------------------------------------------------------
JobNames == {"postScheduler", "analytics", "cleanup"}

\* the CronJobs of the n-th call of start()
Starts == 1..MaxStarts

NoJob == 0

outsideCron == <<posts, attempted, notifications, outsideScheduler,
                 collectVars, sweepVars, ownerVars, selectVars, rowVars, lateVars>>

\* three new CronJobs are started and the map is set to them, whatever it
\* held
Start ==
    /\ starts < MaxStarts
    /\ starts' = starts + 1
    /\ cronJobs' = cronJobs \cup {<<starts + 1, name>> : name \in JobNames}
    /\ jobs' = [name \in JobNames |-> starts + 1]
    /\ halted' = {}
    /\ UNCHANGED <<runs, threw, outsideCron>>

\* the mutation: stop() ends the invocations that are in progress
Interrupted(rs) == [r \in DOMAIN rs |-> IdleRun]

\* job.stop() clears the timer of the CronJob; an invocation that has begun
\* is a promise of the event loop, which stop() has no reference to
InFlight(rs) == rs

\* job.stop() for every job of the map, then jobs.clear(); the method does
\* not await anything
Stop ==
    /\ cronJobs' = cronJobs \ {<<jobs[name], name>> : name \in JobNames}
    /\ jobs' = [name \in JobNames |-> NoJob]
    /\ runs' = InFlight(runs)
    /\ halted' = {r \in Runs : runs[r].pc = "publish"}
    /\ UNCHANGED <<starts, threw, outsideCron>>

\* a started CronJob of that name exists, so its timer fires
Fires(name) == \E k \in Starts : <<k, name>> \in cronJobs

\* the mutation: the error leaves the callback, and the unhandled rejection
\* ends the process and every timer with it
Uncaught(timers) == {}

\* catch (error) { console.error(...) } around the body of a job: the
\* callback returns, and the timers stay as they are
Caught(timers) == timers

\* the action of a job raised an error
Raise(name) ==
    /\ threw' = [threw EXCEPT ![name] = ~@]
    /\ cronJobs' = Caught(cronJobs)

\* ------------------------------------------------------------------------
\* SchedulerService.collectAnalytics
\* ------------------------------------------------------------------------
Accounts == {1, 2}

\* POST / stores the post under the accountId of the request
AccountOf(p) == ((p - 1) % Cardinality(Accounts)) + 1

\* what getAnalytics returns: one metric with a value, or no metric when the
\* call to the platform fails (getAnalytics logs the error and returns [])
MetricType == "followers"
MetricValues == {1, 2}
NoValue == 0

\* database.sql declares UNIQUE(account_id, metric_type, date) on
\* analytics_data, DatabaseService.createTables does not; both create the
\* table IF NOT EXISTS, so the one that runs first decides
Schemas == {"database.sql", "createTables"}

HasUniqueKey(name) == name = "database.sql"

Days == 0..MaxDays

\* rows: the selected accounts the for loop has not finished, current first
\* analytics: the metrics of the current account that are not stored yet
\* history of the invocation: the accounts its SELECT returned, those whose
\* fetch or store failed, and those whose metrics are all stored
IdleCollect == [pc |-> "idle", rows |-> <<>>, analytics |-> <<>>,
                selected |-> {}, failed |-> {}, stored |-> {}]

outsideCollect == <<dispatchVars, outsideScheduler, sweepVars, ownerVars,
                    selectVars, moreVars, jobs, starts>>

\* SELECT * FROM social_accounts WHERE is_active = true
ActiveAccounts == {a \in Accounts : accounts[a].is_active}

NextAccount(c) ==
    IF Len(c.rows) > 1
    THEN [c EXCEPT !.pc = "fetch", !.rows = Tail(c.rows), !.analytics = <<>>]
    ELSE IdleCollect

\* getAnalytics has logged an error of the platform and returned no metric:
\* the loop over the metrics is empty, and the account is done
NothingFetched(c) == NextAccount([c EXCEPT !.failed = @ \cup {Head(c.rows)}])

\* the last metric of the account is stored
AccountStored(c) == NextAccount([c EXCEPT !.stored = @ \cup {Head(c.rows)}])

\* the mutation: the error of an account leaves the loop
OnAccountErrorReturns(c) == IdleCollect

\* catch (error) { console.error(...) } inside the loop over the accounts:
\* the loop goes on with the next account
OnAccountError(c) == NextAccount([c EXCEPT !.failed = @ \cup {Head(c.rows)}])

\* the hourly tick: the invocation selects the active accounts, in an order
\* the query does not fix
CollectTick ==
    /\ collect.pc = "idle"
    /\ \E rows \in OrderedRows(ActiveAccounts) :
          collect' = IF Len(rows) = 0 THEN IdleCollect
                     ELSE [IdleCollect EXCEPT !.pc = "fetch", !.rows = rows,
                                              !.selected = ActiveAccounts]
    /\ UNCHANGED <<accounts, metrics, schema, today, latest, cronJobs, threw,
                   outsideCollect>>

\* the SELECT throws: the outer catch logs it and the invocation returns
CollectSelectThrows ==
    /\ collect.pc = "idle"
    /\ Raise("analytics")
    /\ UNCHANGED <<collect, accounts, metrics, schema, today, latest,
                   outsideCollect>>

\* await SocialMediaService.getAnalytics(account)
GetAnalytics(value) ==
    /\ collect.pc = "fetch"
    /\ collect' = IF value = NoValue THEN NothingFetched(collect)
                  ELSE [collect EXCEPT
                           !.pc = "insert",
                           !.analytics = <<[type |-> MetricType, value |-> value]>>]
    /\ UNCHANGED <<accounts, metrics, schema, today, latest, cronJobs, threw,
                   outsideCollect>>

KeyOfRow(row) == <<row.account_id, row.metric_type, row.date>>

\* INSERT ... ON CONFLICT (account_id, metric_type, date) DO UPDATE SET
\* metric_value = $3, on a table with that unique key
Upsert(rows, row) ==
    IF \E i \in DOMAIN rows : KeyOfRow(rows[i]) = KeyOfRow(row)
    THEN [i \in DOMAIN rows |->
             IF KeyOfRow(rows[i]) = KeyOfRow(row)
             THEN [rows[i] EXCEPT !.metric_value = row.metric_value]
             ELSE rows[i]]
    ELSE Append(rows, row)

\* the INSERT of one metric. Without a unique key on the three columns the
\* statement is rejected (no unique or exclusion constraint matches the ON
\* CONFLICT specification); the catch of the account logs the error and the
\* loop goes on to the next account
InsertMetric ==
    LET metric == Head(collect.analytics)
        account == Head(collect.rows)
        row == [account_id |-> account, metric_type |-> metric.type,
                metric_value |-> metric.value, date |-> today]
    IN /\ collect.pc = "insert"
       /\ latest' = [latest EXCEPT ![account] = metric.value]
       /\ IF HasUniqueKey(schema)
          THEN /\ metrics' = Upsert(metrics, row)
               /\ collect' = IF Len(collect.analytics) > 1
                             THEN [collect EXCEPT !.analytics = Tail(@)]
                             ELSE AccountStored(collect)
               /\ UNCHANGED <<cronJobs, threw>>
          ELSE /\ metrics' = metrics
               /\ collect' = OnAccountError(collect)
               /\ Raise("analytics")
       /\ UNCHANGED <<accounts, schema, today, outsideCollect>>

\* the INSERT throws for a reason of the store: the same catch
InsertMetricThrows ==
    /\ collect.pc = "insert"
    /\ collect' = OnAccountError(collect)
    /\ Raise("analytics")
    /\ UNCHANGED <<accounts, metrics, schema, today, latest, outsideCollect>>

\* routes/accounts PUT /:accountId with isActive
SetActive(a, isActive) ==
    /\ accounts[a].is_active # isActive
    /\ accounts' = [accounts EXCEPT ![a].is_active = isActive]
    /\ UNCHANGED <<collect, metrics, schema, today, latest, cronJobs, threw,
                   outsideCollect>>

\* midnight: CURRENT_DATE is the next day
NoSample == 0

NextDay ==
    /\ today < MaxDays
    /\ today' = today + 1
    /\ latest' = [a \in Accounts |-> NoSample]
    /\ UNCHANGED <<collect, accounts, metrics, schema, cronJobs, threw,
                   outsideCollect>>

\* the steps of an invocation of collectAnalytics after its SELECT, with the
\* platform reporting one of the given values or failing
CollectSteps(values) ==
    \/ \E value \in values \cup {NoValue} : GetAnalytics(value)
    \/ InsertMetric
    \/ InsertMetricThrows

CollectInit ==
    /\ collect = IdleCollect
    /\ accounts = [a \in Accounts |-> [is_active |-> TRUE]]
    /\ metrics = <<>>
    /\ today = 0
    /\ latest = [a \in Accounts |-> NoSample]

\* ------------------------------------------------------------------------
\* SchedulerService.cleanupOldData
\* ------------------------------------------------------------------------
\* the three DELETE statements, in the order of the method
Categories == {"analytics", "conversations", "posts"}

\* INTERVAL '1 week', in days
RetentionDays == 7

\* done:   the categories whose DELETE this invocation has executed
\* failed: the category whose DELETE threw, or "none"
IdleSweep == [pc |-> "idle", done |-> {}, failed |-> "none"]

outsideSweep == <<runs, attempted, notifications, outsideScheduler,
                  collectVars, ownerVars, selectVars, moreVars, jobs, starts>>

\* the daily tick: the invocation starts with the DELETE of analytics_data
SweepTick ==
    /\ sweep.pc = "idle"
    /\ sweep' = [IdleSweep EXCEPT !.pc = "analytics"]
    /\ UNCHANGED <<posts, expired, created, cronJobs, threw, outsideSweep>>

\* DELETE FROM analytics_data WHERE created_at < NOW() - INTERVAL '1 year'
DeleteAnalytics ==
    /\ sweep.pc = "analytics"
    /\ expired' = [expired EXCEPT !.analytics = FALSE]
    /\ sweep' = [sweep EXCEPT !.pc = "conversations",
                              !.done = @ \cup {"analytics"}]
    /\ UNCHANGED <<posts, created, cronJobs, threw, outsideSweep>>

\* DELETE FROM chatbot_conversations WHERE created_at < NOW() - INTERVAL
\* '6 months'
DeleteConversations ==
    /\ sweep.pc = "conversations"
    /\ expired' = [expired EXCEPT !.conversations = FALSE]
    /\ sweep' = [sweep EXCEPT !.pc = "posts",
                              !.done = @ \cup {"conversations"}]
    /\ UNCHANGED <<posts, created, cronJobs, threw, outsideSweep>>

\* WHERE status = 'failed' AND created_at < NOW() - INTERVAL '1 week'
Deletable(row, days) == row.status = "failed" /\ days > RetentionDays

\* DELETE FROM scheduled_posts WHERE ..., and the return of the invocation
DeleteFailedPosts ==
    /\ sweep.pc = "posts"
    /\ posts' = [p \in PostIds |->
                    IF Deletable(posts[p], created[p]) THEN AbsentRow
                    ELSE posts[p]]
    /\ created' = [p \in PostIds |->
                    IF Deletable(posts[p], created[p]) THEN 0 ELSE created[p]]
    /\ sweep' = [sweep EXCEPT !.pc = "idle", !.done = @ \cup {"posts"}]
    /\ UNCHANGED <<expired, cronJobs, threw, outsideSweep>>

\* the DELETE the invocation is at throws: the one catch of the method logs
\* the error and the invocation returns
SweepThrows ==
    /\ sweep.pc # "idle"
    /\ sweep' = [sweep EXCEPT !.pc = "idle", !.failed = sweep.pc]
    /\ Raise("cleanup")
    /\ UNCHANGED <<posts, expired, created, outsideSweep>>

\* rows of analytics_data or chatbot_conversations get older than the
\* retention of their table
Expire(category) ==
    /\ ~expired[category]
    /\ expired' = [expired EXCEPT ![category] = TRUE]
    /\ UNCHANGED <<posts, sweep, created, cronJobs, threw, outsideSweep>>

\* a day passes for every row of scheduled_posts, between two sweeps; ages
\* beyond the day after the retention are not told apart
Elapse ==
    /\ sweep.pc = "idle"
    /\ \E p \in PostIds : posts[p].status # "absent" /\ created[p] <= RetentionDays
    /\ created' = [p \in PostIds |->
                    IF posts[p].status = "absent" THEN 0
                    ELSE Min(created[p] + 1, RetentionDays + 1)]
    /\ UNCHANGED <<posts, sweep, expired, cronJobs, threw, outsideSweep>>

SweepSteps ==
    \/ DeleteAnalytics
    \/ DeleteConversations
    \/ DeleteFailedPosts
    \/ SweepThrows

SweepInit ==
    /\ sweep = IdleSweep
    /\ expired = [analytics |-> FALSE, conversations |-> FALSE]
    /\ created = [p \in PostIds |-> 0]

\* ------------------------------------------------------------------------
\* routes/posts: PUT /:postId  (update a scheduled post)
\* ------------------------------------------------------------------------
\* scheduledTime of the body: absent, or a time in the future (a time that
\* is not in the future is answered with 400)
ScheduledTimes == {"none", "future"}

IdleEdit == [pc |-> "idle", postId |-> 0, scheduledTime |-> "none"]

outsideOwner == <<runs, attempted, notifications, outsideScheduler, cronVars,
                  collectVars, sweepVars, selectVars, moreVars>>

\* the SELECT that verifies the post belongs to the user and is pending; a
\* post that is not found is answered with 404
UpdateCheck(postId, scheduledTime) ==
    /\ edits.pc = "idle"
    /\ posts[postId].status = "pending"
    /\ edits' = [pc |-> "update", postId |-> postId,
                 scheduledTime |-> scheduledTime]
    /\ UNCHANGED <<posts, revision, outsideOwner>>

\* UPDATE scheduled_posts SET ..., scheduled_time = COALESCE($3,
\* scheduled_time) WHERE id = $4
UpdateWrite ==
    LET p == edits.postId
        writes == /\ edits.scheduledTime # "none"
                  /\ posts[p].status # "absent"
    IN /\ edits.pc = "update"
       /\ IF writes THEN revision[p] < MaxEdits ELSE TRUE
       /\ posts' = IF writes THEN [posts EXCEPT ![p].due = FALSE] ELSE posts
       /\ revision' = IF writes THEN [revision EXCEPT ![p] = @ + 1] ELSE revision
       /\ edits' = IdleEdit
       /\ UNCHANGED outsideOwner

OwnerInit ==
    /\ edits = IdleEdit
    /\ revision = [p \in PostIds |-> 0]

\* ------------------------------------------------------------------------
\* SchedulerService.processScheduledPosts: the query
\* ------------------------------------------------------------------------
\* the scheduled times of the rows, and NOW() of the query
Times == {1, 2, 3}
SelectNow == 2

RowStatuses == {"pending", "published"}

\* the kinds of rows: scheduled_time and status
Kinds == Times \X RowStatuses

RowOf(kind) == [scheduled_time |-> kind[1], status |-> kind[2]]

RECURSIVE Total(_, _)
Total(tbl, K) ==
    IF K = {} THEN 0
    ELSE LET k == CHOOSE x \in K : TRUE IN tbl[k] + Total(tbl, K \ {k})

Repeat(x, n) == [i \in 1..n |-> x]

NoBatch == [selected |-> FALSE, rows |-> <<>>]

outsideSelect == <<dispatchVars, outsideScheduler, cronVars, collectVars,
                   sweepVars, ownerVars, moreVars>>

\* WHERE sp.status = 'pending' AND sp.scheduled_time <= NOW()
WherePendingDue(tbl) ==
    {k \in Kinds : tbl[k] > 0 /\ k[2] = "pending" /\ k[1] <= SelectNow}

\* the mutation: ORDER BY sp.scheduled_time DESC
RECURSIVE OrderByScheduledTimeDesc(_, _)
OrderByScheduledTimeDesc(tbl, K) ==
    IF K = {} THEN <<>>
    ELSE LET first == CHOOSE k \in K : \A j \in K : k[1] >= j[1]
         IN Repeat(RowOf(first), tbl[first])
               \o OrderByScheduledTimeDesc(tbl, K \ {first})

\* ORDER BY sp.scheduled_time ASC
RECURSIVE OrderByScheduledTime(_, _)
OrderByScheduledTime(tbl, K) ==
    IF K = {} THEN <<>>
    ELSE LET first == CHOOSE k \in K : \A j \in K : k[1] <= j[1]
         IN Repeat(RowOf(first), tbl[first])
               \o OrderByScheduledTime(tbl, K \ {first})

\* the query of the tick: the rows the for loop attempts
DispatchQuery(tbl) ==
    Limit(OrderByScheduledTime(tbl, WherePendingDue(tbl)), BatchLimit)

\* one more row of a kind in the table the query is applied to
AddRow(kind) ==
    /\ ~selection.selected
    /\ Total(table, Kinds) < MaxRows
    /\ table' = [table EXCEPT ![kind] = @ + 1]
    /\ UNCHANGED <<selection, outsideSelect>>

SelectDue ==
    /\ ~selection.selected
    /\ selection' = [selected |-> TRUE, rows |-> DispatchQuery(table)]
    /\ UNCHANGED <<table, outsideSelect>>

SelectInit ==
    /\ table = [k \in Kinds |-> 0]
    /\ selection = NoBatch

SelectNext ==
    \/ \E kind \in Kinds : AddRow(kind)
    \/ SelectDue

CronInit ==
    /\ jobs = [name \in JobNames |-> NoJob]
    /\ cronJobs = {}
    /\ starts = 0
    /\ threw = [name \in JobNames |-> FALSE]

\* ------------------------------------------------------------------------
\* ChatbotService.processMessage, for the messages of one user handle to
\* one account; the key is written with a time to live of one hour, and the
\* messages arrive within that hour
\* ------------------------------------------------------------------------
Messages == 1..MaxMessages

\* Allow max 3 responses per hour per user
ChatLimit == 3

NewMessage == [pc |-> "new", newCount |-> 0]

outsideChat == <<dispatchVars, outsideScheduler, cronVars, collectVars,
                 sweepVars, ownerVars, selectVars, rowVars, halted, faultVars,
                 report>>

\* return !count || parseInt(count) < 3
ShouldRespond(value) == value = <<>> \/ ParseInt(value) < ChatLimit

\* checkRateLimit: the GET of the key; a message over the limit returns
\* shouldReply: false
CheckRateLimit(m) ==
    /\ chat[m].pc = "new"
    /\ chat' = [chat EXCEPT ![m].pc = IF ShouldRespond(chatKey) THEN "reply"
                                                               ELSE "refused"]
    /\ UNCHANGED <<chatKey, outsideChat>>

\* analyzeSentiment and generateResponse, which fall back to an answer of
\* their own when the API fails, and the INSERT of storeConversation
StoreConversation(m) ==
    /\ chat[m].pc = "reply"
    /\ chat' = [chat EXCEPT ![m].pc = "get"]
    /\ UNCHANGED <<chatKey, outsideChat>>

\* updateRateLimit: const current = await RedisService.get(key)
UpdateRateLimitGet(m) ==
    /\ chat[m].pc = "get"
    /\ chat' = [chat EXCEPT ![m] =
                  [pc |-> "set",
                   newCount |-> IF chatKey # <<>> THEN ParseInt(chatKey) + 1 ELSE 1]]
    /\ UNCHANGED <<chatKey, outsideChat>>

\* await RedisService.set(key, newCount.toString(), 3600), and the return
\* of the reply with shouldReply: true
UpdateRateLimitSet(m) ==
    /\ chat[m].pc = "set"
    /\ chatKey' = NumberToString(chat[m].newCount)
    /\ chat' = [chat EXCEPT ![m].pc = "replied"]
    /\ UNCHANGED outsideChat

\* a call of the store throws: processMessage logs the error and throws it
\* again, and no reply is returned
ProcessMessageThrows(m) ==
    /\ chat[m].pc \in {"new", "reply", "get", "set"}
    /\ chat' = [chat EXCEPT ![m].pc = "threw"]
    /\ UNCHANGED <<chatKey, outsideChat>>

ChatInit ==
    /\ chat = [m \in Messages |-> NewMessage]
    /\ chatKey = <<>>

\* the messages are processed concurrently
ChatNext ==
    \/ \E m \in Messages : CheckRateLimit(m)
    \/ \E m \in Messages : StoreConversation(m)
    \/ \E m \in Messages : UpdateRateLimitGet(m)
    \/ \E m \in Messages : UpdateRateLimitSet(m)
    \/ \E m \in Messages : ProcessMessageThrows(m)

\* every row of scheduled_posts references a row of social_accounts
RowInit ==
    /\ orphans = {}
    /\ deleted = {}

MoreInit ==
    /\ RowInit
    /\ halted = {}
    /\ ChatInit
    /\ faults = {}
    /\ escaped = FALSE
    /\ report = NoReport

\* the schema of database.sql
JobInit ==
    /\ MoreInit
    /\ CronInit
    /\ CollectInit
    /\ schema = "database.sql"
    /\ SweepInit
    /\ OwnerInit
    /\ SelectInit

\* one createNotification at a time, and markAsRead and markAllAsRead
MarkNext ==
    \/ CreateNext({1}, {"post_failed"}) /\ Len(notifications') <= ReadRows
    \/ \E u \in Users, ids \in IdSets : MarkAsRead(u, ids)
    \/ \E u \in Users : MarkAllAsRead(u)

\* createNotification for two users, one call at a time and up to OwnRows
\* rows, and each user marking notifications as read: PUT /mark-read and PUT /mark-all-read call
\* the service with the id of the authenticated user and, for mark-read,
\* the notificationIds of the body
OwnRows == IF MaxCreates < 2 THEN MaxCreates ELSE 2

OwnNext ==
    \/ CreateFor({1}, AllUsers, {"post_failed"}) /\ Len(notifications') <= OwnRows
    \/ \E u \in AllUsers, ids \in SUBSET (1..(OwnRows + 1)) : MarkAsRead(u, ids)
    \/ \E u \in AllUsers : MarkAllAsRead(u)

\* the limits a getNotifications call asks for
Limits == {1, 2}

\* one createNotification at a time, markAllAsRead, and one getNotifications
\* at a time
ListNext ==
    \/ CreateNext({1}, {"post_failed"}) /\ Len(notifications') <= ReadRows
    \/ \E u \in Users : MarkAllAsRead(u)
    \/ \E u \in Users, page \in 1..MaxPage, limit \in Limits,
          unreadOnly \in BOOLEAN : SelectPage(u, page, limit, unreadOnly)
    \/ CountRows
    \/ ListThrows

DispatchInit ==
    /\ posts = [p \in PostIds |-> AbsentRow]
    /\ runs = [r \in Runs |-> IdleRun]
    /\ attempted = {}
    /\ notifications = <<>>

\* one step of an invocation of processScheduledPosts
RunStep(r) ==
    \/ \E out \in PublishOutcomes : Publish(r, out)
    \/ UpdatePublished(r)
    \/ UpdatePublishedThrows(r)
    \/ UpdateFailed(r)
    \/ UpdateFailedThrows(r)

Init ==
    DispatchInit /\ LimiterInit /\ PipelineInit /\ NotifyInit /\ ReadInit /\ JobInit

\* the store holds the keys of the mounted configurations
InitKeys ==
    /\ DispatchInit
    /\ PipelineInit
    /\ NotifyInit
    /\ ReadInit
    /\ JobInit
    /\ redis = [key \in PipelineKeys |-> NoKey]
    /\ reqs = [q \in ReqSlots |-> IdleReq]
    /\ hist = [key \in LimiterKeys |-> <<>>]
    /\ overlapped = [key \in LimiterKeys |-> FALSE]
    /\ faulted = [key \in LimiterKeys |-> FALSE]
    /\ age = [key \in LimiterKeys |-> NoAge]
    /\ renewed = [key \in LimiterKeys |-> FALSE]

Next ==
    \/ CreatePost(PostIds)
    \/ \E p \in PostIds : BecomeDue(p)
    \/ Tick(Runs)
    \/ TickSelectThrows(Runs)
    \/ \E r \in Runs : RunStep(r)

vars == <<dispatchVars, outsideDispatch>>

Spec == Init /\ [][Next]_vars

SpecLimiter == Init /\ [][LimiterNext]_vars

SpecKeys == InitKeys /\ [][PipelineNext]_vars

\* any rules are stored
InitNotify ==
    /\ DispatchInit
    /\ LimiterInit
    /\ PipelineInit
    /\ ReadInit
    /\ JobInit
    /\ \E stored \in [Users -> [NotificationTypes -> RuleRows]] :
          rules = [u \in AllUsers |->
                      [t \in AllTypes |->
                          IF u \in Users /\ t \in NotificationTypes
                          THEN stored[u][t] ELSE <<>>]]
    /\ realtime = [u \in AllUsers |-> {}]
    /\ calls = [c \in Creators |-> IdleCall]
    /\ now = 0
    /\ count = [u \in AllUsers |-> NoCount]
    /\ order = [u \in AllUsers |-> <<>>]
    /\ skipped = {}

SpecNotify == Init /\ [][NotifyNext]_vars

SpecPair == Init /\ [][PairNext]_vars

SpecRules == InitNotify /\ [][RulesNext]_vars

SpecUnread == Init /\ [][UnreadNext]_vars

SpecFaults == Init /\ [][FaultsNext]_vars

SpecReport == Init /\ [][ReportNext]_vars

SpecMark == Init /\ [][MarkNext]_vars

SpecOwn == Init /\ [][OwnNext]_vars

SpecList == Init /\ [][ListNext]_vars

\* the dispatch job with at most LivePosts rows and LiveRuns invocations in
\* progress
LiveNext ==
    \/ CreatePost(LivePostIds)
    \/ \E p \in LivePostIds : BecomeDue(p)
    \/ Tick(LiveRunIds)
    \/ TickSelectThrows(LiveRunIds)
    \/ \E r \in LiveRunIds : RunStep(r)

\* the cron timer keeps firing, the event loop resumes every awaited call,
\* every publish call returns, and a store statement that is issued again
\* and again does not throw every time
FairSpec ==
    /\ Init
    /\ [][LiveNext]_vars
    /\ WF_vars(Tick(LiveRunIds))
    /\ \A r \in LiveRunIds :
          /\ WF_vars(\E out \in PublishOutcomes : Publish(r, out))
          /\ SF_vars(UpdatePublished(r))
          /\ SF_vars(UpdateFailed(r))

\* ------------------------------------------------------------------------
\* scheduled_posts.account_id
\* ------------------------------------------------------------------------
\* account_id INTEGER REFERENCES social_accounts(id) ON DELETE CASCADE is a
\* nullable column: POST / stores the id of an account it has found, and the
\* row of a deleted account goes with the account, so the row of a post that
\* has no account is written by a statement that is not of the routes (a
\* row with account_id NULL, or a restore without the constraint)
LoseAccount(p) ==
    /\ posts[p].status = "pending"
    /\ p \notin orphans
    /\ orphans' = orphans \cup {p}
    /\ UNCHANGED <<deleted, halted, lateVars, dispatchVars, outsideScheduler,
                   cronVars, collectVars, sweepVars, ownerVars, selectVars>>

\* ------------------------------------------------------------------------
\* routes/posts: DELETE /:postId
\* ------------------------------------------------------------------------
\* DELETE FROM scheduled_posts sp USING social_accounts sa WHERE sp.account_id
\* = sa.id AND sp.id = $1 AND sa.user_id = $2 AND sp.status = 'pending'
\* RETURNING sp.id: a row is returned and the request is answered with
\* success (no row would be answered with 404)
DeletePost(p) ==
    /\ posts[p].status = "pending"
    /\ Joined(p)
    /\ posts' = [posts EXCEPT ![p] = AbsentRow]
    /\ deleted' = deleted \cup {p}
    /\ UNCHANGED <<orphans, halted, lateVars, runs, attempted, notifications,
                   outsideScheduler, cronVars, collectVars, sweepVars, ownerVars,
                   selectVars>>

\* the dispatch job and the owner deleting posts; id SERIAL gives a new row
\* an id that no row had before
DeleteNext ==
    \/ CreatePost(LivePostIds \ deleted)
    \/ \E p \in LivePostIds : BecomeDue(p)
    \/ Tick(LiveRunIds)
    \/ TickSelectThrows(LiveRunIds)
    \/ \E r \in LiveRunIds : RunStep(r)
    \/ \E p \in LivePostIds : DeletePost(p)

SpecDelete == Init /\ [][DeleteNext]_vars

SpecChat == Init /\ [][ChatNext]_vars

\* the dispatch job over rows of which some have no account
OrphanNext ==
    \/ LiveNext
    \/ \E p \in LivePostIds : LoseAccount(p)

\* the fairness of FairSpec
FairOrphan ==
    /\ Init
    /\ [][OrphanNext]_vars
    /\ WF_vars(Tick(LiveRunIds))
    /\ \A r \in LiveRunIds :
          /\ WF_vars(\E out \in PublishOutcomes : Publish(r, out))
          /\ SF_vars(UpdatePublished(r))
          /\ SF_vars(UpdateFailed(r))

\* ------------------------------------------------------------------------
\* The scheduler with its three jobs, and the routes beside the dispatch job
\* ------------------------------------------------------------------------
FirstPost == {p \in PostIds : p = 1}
FirstRun == {r \in Runs : r = 1}

\* start and stop, and the three jobs while their CronJob is started: the
\* dispatch job with one row and one invocation at a time
JobsNext ==
    \/ Start
    \/ Stop
    \/ CreatePost(FirstPost)
    \/ \E p \in FirstPost : BecomeDue(p)
    \/ Fires("postScheduler") /\ Tick(FirstRun)
    \/ Fires("postScheduler") /\ TickSelectThrows(FirstRun)
    \/ \E r \in FirstRun : RunStep(r)
    \/ Fires("analytics") /\ CollectTick
    \/ Fires("analytics") /\ CollectSelectThrows
    \/ CollectSteps({1})
    \/ Fires("cleanup") /\ SweepTick
    \/ SweepSteps

SpecJobs == Init /\ [][JobsNext]_vars

\* start and stop beside the dispatch job with at most LivePosts rows and
\* LiveRuns invocations in progress
StopNext ==
    \/ Start
    \/ Stop
    \/ CreatePost(LivePostIds)
    \/ \E p \in LivePostIds : BecomeDue(p)
    \/ Fires("postScheduler") /\ Tick(LiveRunIds)
    \/ Fires("postScheduler") /\ TickSelectThrows(LiveRunIds)
    \/ \E r \in LiveRunIds : RunStep(r)

\* the event loop resumes every awaited call: publishPost returns or throws,
\* and so does each UPDATE
FairStop ==
    /\ Init
    /\ [][StopNext]_vars
    /\ \A r \in LiveRunIds :
          /\ WF_vars(\E out \in PublishOutcomes : Publish(r, out))
          /\ WF_vars(UpdatePublished(r) \/ UpdatePublishedThrows(r))
          /\ WF_vars(UpdateFailed(r) \/ UpdateFailedThrows(r))

\* the dispatch job, the retention sweep, and the time that makes rows old
SweepNext ==
    \/ LiveNext
    \/ SweepTick
    \/ SweepSteps
    \/ \E category \in {"analytics", "conversations"} : Expire(category)
    \/ Elapse

SpecSweep == Init /\ [][SweepNext]_vars

SpecSelect == Init /\ [][SelectNext]_vars

\* the dispatch job and the owner of the posts updating them
OwnerNext ==
    \/ Next
    \/ \E p \in PostIds, t \in ScheduledTimes : UpdateCheck(p, t)
    \/ UpdateWrite

SpecOwner == Init /\ [][OwnerNext]_vars

\* the table analytics_data was created by either statement
InitMetrics ==
    /\ DispatchInit
    /\ LimiterInit
    /\ PipelineInit
    /\ NotifyInit
    /\ ReadInit
    /\ MoreInit
    /\ CronInit
    /\ CollectInit
    /\ schema \in Schemas
    /\ SweepInit
    /\ OwnerInit
    /\ SelectInit

\* metrics collection over the days, with accounts switched on and off
MetricsNext ==
    \/ CollectTick
    \/ CollectSelectThrows
    \/ CollectSteps(MetricValues)
    \/ NextDay
    \/ \E a \in Accounts, isActive \in BOOLEAN : SetActive(a, isActive)

SpecMetrics == InitMetrics /\ [][MetricsNext]_vars

\* POST / verifies that the account of the new post is active
SchedulePost(ids) ==
    /\ accounts[AccountOf(NextPostId(ids))].is_active
    /\ CreatePost(ids)

\* the dispatch job and metrics collection, with accounts switched on and
\* off
AccountsNext ==
    \/ SchedulePost(LivePostIds)
    \/ \E p \in LivePostIds : BecomeDue(p)
    \/ Tick(LiveRunIds)
    \/ TickSelectThrows(LiveRunIds)
    \/ \E r \in LiveRunIds : RunStep(r)
    \/ CollectTick
    \/ CollectSelectThrows
    \/ CollectSteps({1})
    \/ \E a \in Accounts, isActive \in BOOLEAN : SetActive(a, isActive)

SpecAccounts == Init /\ [][AccountsNext]_vars

\* ------------------------------------------------------------------------
\* Properties of the dispatch job
\* ------------------------------------------------------------------------
InProgress(r) == runs[r].pc # "idle"

Terminal(p) == posts[p].status \in {"published", "failed"}

Recording(r) == runs[r].pc \in {"upd_published", "upd_failed"}

\* the step in which invocation r calls publishPost for its current row
PublishStep(r) == runs[r].pc = "publish" /\ runs'[r].pc # "publish"

\* the step in which invocation r is done with its current row
RowEnds(r) == Recording(r) /\ runs'[r].pc \notin {"upd_published", "upd_failed"}

\* the step in which a status UPDATE of invocation r throws
StoreThrows(r) == Recording(r) /\ runs'[r] # runs[r] /\ posts' = posts

\* C1: the platform publish call is made at most once for any scheduled
\* post, over any sequence of dispatch ticks of the one scheduler.
C1_PublishAtMostOnce ==
    [][\A r \in Runs : PublishStep(r) => CurrentPost(r) \notin attempted]_vars

\* C2: no two invocations of processScheduledPosts are in progress at the
\* same time (a tick that fires during an invocation is skipped).
C2_JobSerialized ==
    \A r, s \in Runs : (InProgress(r) /\ InProgress(s)) => r = s

C4_TerminalStatusIsFinal ==
    [][/\ \A p \in PostIds :
            Terminal(p) => posts'[p].status = posts[p].status
       /\ \A r \in Runs :
            PublishStep(r) => posts[CurrentPost(r)].status # "failed"]_vars

\* C5: a post of the batch is published with postedAt set exactly when its
\* publish call succeeded, and failed with a non-empty recorded error
\* exactly when its publish call failed, from the moment the dispatch tick
\* is done with it.
C5_OutcomeRecorded ==
    [][\A r \in Runs :
          RowEnds(r) =>
              LET row == posts'[CurrentPost(r)] IN
              /\ (runs[r].out = "ok")
                    <=> (row.status = "published" /\ row.posted_at # "NULL")
              /\ (runs[r].out # "ok")
                    <=> (row.status = "failed" /\ row.error_message # NoError)]_vars

\* C6: every publish attempt emits a notification: post_published when the
\* call succeeded, post_failed with the captured error text when it failed,
\* and no such notification exists without a publish attempt.
C6_NotificationPerAttempt ==
    [][/\ \A r \in Runs :
            RowEnds(r) =>
                \E n \in 1..Len(notifications') :
                    IF runs[r].out = "ok"
                    THEN notifications'[n].type = "post_published"
                    ELSE /\ notifications'[n].type = "post_failed"
                         /\ notifications'[n].error = runs[r].out
       /\ attempted' = {} =>
            \A n \in 1..Len(notifications') :
                notifications'[n].type \notin {"post_published", "post_failed"}]_vars

\* C7: within one tick, a post whose publish call failed is marked failed
\* and the later posts of the batch are still attempted.
C7_PublishFailureIsolated ==
    [][\A r \in Runs :
          (RowEnds(r) /\ runs[r].out # "ok") =>
              /\ posts'[CurrentPost(r)].status = "failed"
              /\ Len(runs[r].batch) > 1 =>
                    /\ runs'[r].pc = "publish"
                    /\ runs'[r].batch = Tail(runs[r].batch)]_vars

\* C8: a store failure while recording one post's outcome aborts only that
\* post; the remaining posts of the batch are processed in the same tick.
C8_StoreFailureIsolated ==
    [][\A r \in Runs :
          (StoreThrows(r) /\ Len(runs[r].batch) > 1) =>
              \/ runs'[r].pc = "upd_failed"
              \/ /\ runs'[r].pc = "publish"
                 /\ runs'[r].batch = Tail(runs[r].batch)]_vars

\* ------------------------------------------------------------------------
\* Properties of the rate limiter
\* ------------------------------------------------------------------------
Allowed(key) == {i \in 1..Len(hist[key]) : hist[key][i]}

Sequential(key) == ~overlapped[key] /\ ~faulted[key]

\* C9: sequential calls for one key are allowed up to max and denied from
\* then on (max = 3: allowed, allowed, allowed, denied), and once the window
\* has elapsed since the last allowed call the next call is allowed again
\* (the history of the key starts again when the window has elapsed).
C9_SequentialCalls ==
    \A key \in LimiterKeys :
        Sequential(key) =>
            \A i \in 1..Len(hist[key]) : hist[key][i] = (i <= MaxRequests)

C9_Witness ==
    \E key \in LimiterKeys :
        /\ Sequential(key)
        /\ renewed[key]
        /\ Len(hist[key]) = MaxRequests + 1
        /\ ~hist[key][MaxRequests + 1]

\* C10: with the reads and writes of concurrent requests interleaved, the
\* number of requests allowed for one key within one window is at most
\* maxRequests.
C10_ConcurrentCallsBounded ==
    \A key \in LimiterKeys :
        ~faulted[key] => Cardinality(Allowed(key)) <= MaxRequests

\* C11: the expiry of a key is fixed when the key is first used: while the
\* key exists no step moves its expiry further away (an allowed call inside
\* the window leaves the remaining time to live as it was).
C11_ExpiryFixedAtFirstUse ==
    [][\A key \in LimiterKeys :
          (redis[key] # NoKey /\ redis'[key] # NoKey)
              => redis'[key].ttl <= redis[key].ttl]_vars

StoreThrew == (\E q \in ReqSlots, req \in Requests : GetThrows(q, req))
                  \/ (\E q \in ReqSlots : SetThrows(q))

\* C12: when the store throws on the read or on the write of the limiter,
\* the request gets exactly one verdict and the verdict is next(), never 429,
\* also when the counter of its key is at the limit.
C12_FailsOpen ==
    [][StoreThrew =>
          \E key \in LimiterKeys :
              /\ hist'[key] = Append(hist[key], CalledNext)
              /\ \A other \in LimiterKeys \ {key} : hist'[other] = hist[other]
              /\ reqs' \in {reqs} \cup {[reqs EXCEPT ![q] = IdleReq] : q \in ReqSlots}]_vars

C12_Witness ==
    \E key \in LimiterKeys :
        /\ faulted[key]
        /\ ~overlapped[key]
        /\ LimitExceeded(CurrentRequests(RedisGet(key)))
        /\ Len(hist[key]) = MaxRequests + 2
        /\ hist[key][MaxRequests + 1] = Answered429
        /\ hist[key][MaxRequests + 2] = CalledNext

\* ------------------------------------------------------------------------
\* Properties of the mounted configurations
\* ------------------------------------------------------------------------
RECURSIVE Sum(_, _)
Sum(f, S) == IF S = {} THEN 0
             ELSE LET x == CHOOSE y \in S : TRUE IN f[x] + Sum(f, S \ {x})

\* the requests a configuration has counted under the key it consults for h
CountedUnderKey(name, h) ==
    Sum(seen[name], {g \in HttpRequests : KeyOf(name, g) = KeyOf(name, h)})

\* origin, identity, operation
Triple(h) == <<h.ip, h.token, h.path>>

\* the requests a configuration has counted for the triple of h
CountedForTriple(name, h) ==
    Sum(seen[name], {g \in HttpRequests : Triple(g) = Triple(h)})

MaxOf(name) == IF name = apiLimiter.name THEN apiLimiter.maxRequests
               ELSE authLimiter.maxRequests

\* C13: a configuration denies a request only when it has itself counted
\* maxRequests requests under the key it consults: what another
\* configuration counted never makes it deny.
C13_OwnNamespace ==
    verdict.status = 429 =>
        CountedUnderKey(verdict.by, verdict.req) >= MaxOf(verdict.by)

\* C14: a configuration denies the request of an authenticated user only
\* when it has counted maxRequests requests of the same (origin, identity,
\* operation) triple: the requests of another user never use up the limit
\* of this one.
C14_PerTriple ==
    (verdict.status = 429 /\ verdict.req.token # "") =>
        CountedForTriple(verdict.by, verdict.req) >= MaxOf(verdict.by)

\* ------------------------------------------------------------------------
\* Properties of the notification service
\* ------------------------------------------------------------------------
Disabled == <<[enabled |-> FALSE]>>

RowsOf(rows, userId, type) ==
    {n \in 1..Len(rows) : rows[n].user_id = userId /\ rows[n].type = type}

EntriesOf(userId, type) == {e \in realtime[userId] : e[1] = type}

\* the call in slot c moves from one step to the next
Moves(c, from, to) == calls[c].pc = from /\ calls'[c].pc = to

\* the call in slot c returns
Returns(c) == calls[c].pc # "idle" /\ calls'[c].pc = "idle"

AllIdle == \A c \in Creators : calls[c].pc = "idle"

C16_BoundedAfterCreate ==
    [][\A c \in Creators :
          Returns(c) =>
              LET u == calls[c].userId IN
              /\ Cardinality(realtime'[u]) <= RealTimeCap
              /\ (AllIdle' /\ Len(order'[u]) = RealTimeCap + 1)
                    => Cardinality(realtime'[u]) = RealTimeCap]_vars

\* the place of an entry in the order of insertion
Place(userId, e) == CHOOSE i \in 1..Len(order[userId]) : order[userId][i] = e

\* C17: an entry that a call removes from the real-time set is the earliest
\* inserted of the entries the set holds, and is not the entry the call has
\* just inserted.
C17_FifoEviction ==
    [][\A c \in Creators :
          calls[c].pc = "trim" =>
              LET u == calls[c].userId IN
              \A e \in realtime[u] \ realtime'[u] :
                  /\ e # calls[c].entry
                  /\ \A f \in realtime[u] : Place(u, e) <= Place(u, f)]_vars

\* C18: once all createNotification calls have returned, the real-time set
\* of a user holds min(entries inserted, RealTimeCap) entries.
C18_AtomicAppendWithEviction ==
    AllIdle =>
        \A u \in Users :
            Cardinality(realtime[u]) = Min(Len(order[u]), RealTimeCap)

\* C19: no step removes or changes a durable row, every call that passes the
\* rule check adds one, and the steps that evict from the real-time set
\* leave the table as it is.
C19_DurableUntouchedByEviction ==
    [][/\ Len(notifications') >= Len(notifications)
       /\ \A n \in 1..Len(notifications) : notifications'[n] = notifications[n]
       /\ \A c \in Creators :
             /\ Moves(c, "insert", "add") =>
                   Len(notifications') = Len(notifications) + 1
             /\ (calls[c].pc = "trim" /\ calls'[c] # calls[c]) =>
                   notifications' = notifications]_vars

C19_Witness ==
    \E u \in Users :
        /\ AllIdle
        /\ Len(order[u]) > RealTimeCap
        /\ Cardinality(realtime[u]) < Len(order[u])
        /\ Cardinality({n \in 1..Len(notifications) :
                           notifications[n].user_id = u}) = MaxCreates

\* C20: getUnreadCount returns the number of rows of the user with
\* is_read = false at the moment of the call; markAllAsRead leaves none, and
\* a create adds one.
C20_UnreadCountIsExact ==
    [][\A u \in Users :
          /\ count'[u] # count[u] => count'[u] = Cardinality(Unread(u))
          /\ (\E n \in Unread(u) : notifications'[n].is_read) => Unread(u)' = {}
          /\ (\E c \in Creators : Moves(c, "insert", "add") /\ calls[c].userId = u)
                => Cardinality(Unread(u)') = Cardinality(Unread(u)) + 1]_vars

\* ------------------------------------------------------------------------
\* Properties of the read operations of the notification service
\* ------------------------------------------------------------------------
\* a step of markAsRead or markAllAsRead that repeats the call before it
MarkRepeated ==
    /\ marked'.again
    /\ UNCHANGED <<calls, skipped>>

\* C21: markAsRead and markAllAsRead are idempotent: a call made a second
\* time with the same arguments, with no row inserted in between, completes
\* and leaves the is_read of every notification as it was, also when the ids
\* it names are read already.
C21_MarkingIsIdempotent ==
    [][MarkRepeated =>
          /\ Len(notifications') = Len(notifications)
          /\ \A n \in RowIds(notifications) :
                notifications'[n].is_read = notifications[n].is_read]_vars

\* markAsRead was called twice in a row with the id of a row that is now
\* read, while another row of the user stays unread
C21_Witness ==
    /\ marked.op = "markAsRead"
    /\ marked.again
    /\ \E n \in RowIds(notifications) \cap marked.ids : notifications[n].is_read
    /\ \E n \in RowIds(notifications) \ marked.ids : ~notifications[n].is_read

\* the rows of a user the filter of a listing keeps
Matching(userId, unreadOnly) ==
    {n \in RowIds(notifications) :
        /\ notifications[n].user_id = userId
        /\ ~(unreadOnly /\ notifications[n].is_read)}

\* how many rows of S are newer than row n
Newer(n, S) == Cardinality({m \in S : m > n})

\* C22: getNotifications(userId, page, limit, unreadOnly) returns the rows
\* of the user that match the filter, newest first, that page and limit
\* select; its total is the number of rows that match the same filter when
\* they are counted, hasPrev is true exactly when page > 1, and hasNext is
\* true exactly when matching rows lie beyond the page.
C22_ListIsThePage ==
    [][/\ (listing'.pc = "count" /\ listing.pc # "count") =>
            LET S == Matching(listing'.userId, listing'.unreadOnly)
                first == (listing'.page - 1) * listing'.limit
                rows == listing'.rows
            IN /\ \A i, j \in DOMAIN rows : i < j => rows[i] > rows[j]
               /\ {rows[i] : i \in DOMAIN rows} =
                     {n \in S : /\ Newer(n, S) >= first
                                /\ Newer(n, S) < first + listing'.limit}
       /\ (listing.pc = "count" /\ listing'.pc = "done") =>
            LET S == Matching(listing.userId, listing.unreadOnly)
            IN /\ listing'.rows = listing.rows
               /\ listing'.totalCount = Cardinality(S)
               /\ listing'.hasPrev <=> listing.page > 1
               /\ listing'.hasNext <=>
                     \E n \in S : Newer(n, S) >= listing.page * listing.limit]_vars

\* a listing of the unread rows returned a full page that is neither the
\* first nor the last, while the user has a read row as well
C22_Witness ==
    /\ listing.pc = "done"
    /\ listing.unreadOnly
    /\ listing.hasNext
    /\ listing.hasPrev
    /\ Len(listing.rows) = listing.limit
    /\ \E n \in RowIds(notifications) : notifications[n].is_read

\* ------------------------------------------------------------------------
\* Properties of the scheduler and of its jobs
\* ------------------------------------------------------------------------
\* a call of stop() while the map holds jobs
Stops ==
    /\ \E name \in JobNames : jobs[name] # NoJob
    /\ \A name \in JobNames : jobs'[name] = NoJob

\* C23: when stop() returns, the timer of every job of the map is stopped
\* and no invocation of a job is in progress: stop() waits for an invocation
\* that is running.
C23_StopWaitsForInvocations ==
    [][Stops =>
          /\ \A name \in JobNames : <<jobs[name], name>> \notin cronJobs'
          /\ \A r \in Runs : runs'[r].pc = "idle"
          /\ collect'.pc = "idle"
          /\ sweep'.pc = "idle"]_vars

\* the step in which publishPost or a statement of the dispatch job throws
DispatchRaises ==
    \E r \in Runs :
        \/ PublishStep(r) /\ runs'[r].out \in PublishErrors
        \/ StoreThrows(r)

\* C24: an error raised inside the action of one job (dispatch, collection
\* or retention) does not leave that tick: every timer that was started
\* stays started, so the later ticks of that job and the ticks of the other
\* two jobs fire as before, and the invocations of the other two jobs are
\* left as they are.
C24_JobErrorsAreContained ==
    [][/\ (DispatchRaises \/ threw' # threw) =>
            /\ cronJobs' = cronJobs
            /\ jobs' = jobs
            /\ \A name \in JobNames : Fires(name)' = Fires(name)
       /\ DispatchRaises => collect' = collect /\ sweep' = sweep
       /\ threw'["analytics"] # threw["analytics"] => runs' = runs /\ sweep' = sweep
       /\ threw'["cleanup"] # threw["cleanup"] => runs' = runs /\ collect' = collect
      ]_vars

\* each of the three jobs has raised an error, every timer is started, and
\* a collection and a sweep that began after the errors are in progress
C24_Witness ==
    /\ \A name \in JobNames : Fires(name)
    /\ threw["analytics"]
    /\ threw["cleanup"]
    /\ \E p \in PostIds : posts[p].status = "failed"
    /\ sweep.pc # "idle"
    /\ sweep.failed = "none"
    /\ collect.pc = "fetch"
    /\ Len(collect.rows) = Cardinality(Accounts)

\* the step in which an invocation of cleanupOldData returns
SweepEnds == sweep.pc # "idle" /\ sweep'.pc = "idle"

\* C25: in one retention sweep, a DELETE that fails for one category does
\* not keep the sweep from executing the DELETEs of the other categories:
\* when the sweep returns, every category but the failed one was deleted.
C25_CategoriesAreIndependent ==
    [][SweepEnds => (Categories \ {sweep'.failed}) \subseteq sweep'.done]_vars

\* C26: a retention sweep deletes exactly the scheduled posts that are
\* failed and were created more than 7 days before it: no other row is ever
\* deleted, and when a sweep whose DELETE of posts did not fail returns, no
\* failed post older than 7 days is left.
C26_SweepDeletesOldFailedPosts ==
    [][/\ \A p \in PostIds :
            (posts[p].status # "absent" /\ posts'[p].status = "absent") =>
                posts[p].status = "failed" /\ created[p] >= 8
       /\ (SweepEnds /\ sweep'.failed # "posts") =>
            \A p \in PostIds :
                (posts[p].status = "failed" /\ created[p] >= 8) =>
                    posts'[p].status = "absent"]_vars

\* how many rows of a kind the query returned
Taken(kind) ==
    Cardinality({i \in DOMAIN selection.rows : selection.rows[i] = RowOf(kind)})

C28_ScheduleFixedOnceNotPending ==
    [][\A p \in PostIds :
          posts[p].status \in {"published", "failed"} =>
              revision'[p] = revision[p]]_vars

\* C29: analytics_data never holds two samples for the same (account,
\* metric type, day), and after an account's metric was upserted today the
\* sample of today holds the value of the latest upsert.
C29_OneSamplePerDay ==
    /\ \A i, j \in DOMAIN metrics :
          i # j => KeyOfRow(metrics[i]) # KeyOfRow(metrics[j])
    /\ \A a \in Accounts :
          latest[a] # NoSample =>
              \E i \in DOMAIN metrics :
                  metrics[i] = [account_id |-> a, metric_type |-> MetricType,
                                metric_value |-> latest[a], date |-> today]

\* C30: the platform adapter is called only for accounts that are active
\* when the tick selects its work: every row a dispatch tick selects, and
\* every account a collection tick selects, is of an active account.
C30_AdapterOnlyForActiveAccounts ==
    [][/\ \A r \in Runs :
            (runs[r].pc = "idle" /\ runs'[r].pc = "publish") =>
                \A i \in DOMAIN runs'[r].batch :
                    accounts[AccountOf(runs'[r].batch[i])].is_active
       /\ (collect.pc = "idle" /\ collect'.pc = "fetch") =>
            \A i \in DOMAIN collect'.rows :
                accounts[collect'.rows[i]].is_active]_vars
\* C31: a due pending post whose account is missing is recorded as failed by
\* the dispatch job: with the timer ticking, such a post does not stay
\* pending.
C31_MissingAccountIsFailed ==
    \A p \in LivePostIds :
        (IsDue(p) /\ p \in orphans) ~> (posts[p].status = "failed")
\* the accounts the loop of the invocation has not finished
Waiting(c) == {c.rows[i] : i \in DOMAIN c.rows}

\* C32: in one collection tick the failure of one account does not keep the
\* other accounts from being collected: at every point of the invocation each
\* account its SELECT returned is still to come, or failed itself, or has its
\* metrics stored, and the invocation returns at the last account only.
C32_CollectionFailureIsolated ==
    [][/\ collect'.pc # "idle" =>
            /\ collect'.selected =
                  Waiting(collect') \cup collect'.failed \cup collect'.stored
            /\ collect'.failed \cap collect'.stored = {}
       /\ (collect.pc # "idle" /\ collect'.pc = "idle") =>
            collect.selected =
                {Head(collect.rows)} \cup collect.failed \cup collect.stored]_vars

\* an account failed, and the invocation is storing the metric of the next
C32_Witness ==
    /\ collect.pc = "insert"
    /\ collect.failed # {}
    /\ Head(collect.rows) \notin collect.failed
    /\ collect.selected = Accounts
C34_DeletedPostIsNotPublished ==
    [][\A r \in Runs : PublishStep(r) => CurrentPost(r) \notin deleted]_vars
\* the step in which a request for the key is answered with 429
Denies(key) ==
    /\ Len(hist'[key]) = Len(hist[key]) + 1
    /\ hist'[key][Len(hist'[key])] = Answered429

\* C35: a denied request leaves the counter of its key and the time to live
\* of the counter as they are, so the requests a blocked client goes on
\* sending do not move the end of the block: the counter never outlives the
\* window that began with the last allowed request, and the key that has
\* expired lets the next request through.
C35_DeniedRequestLeavesTheCounter ==
    /\ [][\A key \in LimiterKeys : Denies(key) => redis' = redis]_vars
    /\ [](\A key \in LimiterKeys :
            /\ age[key] # NoAge => redis[key].ttl + age[key] <= WindowSeconds
            /\ redis[key] = NoKey =>
                  ~LimitExceeded(CurrentRequests(RedisGet(key))))

\* a window in which requests were denied has ended, and the first request
\* after it was let through and counted as the first of a new window
C35_Witness ==
    \E key \in LimiterKeys :
        /\ renewed[key]
        /\ ~faulted[key]
        /\ hist[key] = <<CalledNext>>
        /\ redis[key] = [value |-> NumberToString(1), ttl |-> WindowSeconds]
\* the messages that were answered with a reply
Replied == {m \in Messages : chat[m].pc = "replied"}

\* C36: the chatbot returns at most 3 replies per account and user handle
\* within one hour, also for messages that are processed concurrently.
C36_AtMostThreeReplies == Cardinality(Replied) <= ChatLimit
\* stop() was the last call of start() and stop()
Stopped ==
    /\ starts > 0
    /\ \A name \in JobNames : jobs[name] = NoJob

\* C37: after stop() no tick of any job fires, whatever calls of start() and
\* stop() came before it: once stop() was called last, no CronJob is started.
C37_NoTickAfterStop ==
    Stopped => \A name \in JobNames : ~Fires(name)
C39_MarkOnlyOwnNotifications ==
    [][/\ \A n \in RowIds(notifications) :
              notifications'[n] # notifications[n] =>
                  notifications[n].user_id = marked'.userId
       /\ \A u \in AllUsers :
              (u # marked'.userId /\ Len(notifications') = Len(notifications)) =>
                  Unread(u)' = Unread(u)]_vars

\* the last call was markAsRead of user 1 with the id of a row of its own
\* and the id of a row of user 2: the first is read, the second unread
C39_Witness ==
    /\ marked.op = "markAsRead"
    /\ marked.userId = 1
    /\ \E n, m \in marked.ids :
          /\ n <= marked.len /\ m <= marked.len
          /\ notifications[n].user_id = 1 /\ notifications[n].is_read
          /\ notifications[m].user_id = 2 /\ ~notifications[m].is_read
\* ------------------------------------------------------------------------
\* C40: the rules getNotificationRules reports agree with what
\* createNotification enforces: for every user and every type, the type is
\* reported as enabled exactly when createNotification for that user and
\* type would store a notification, also for a user without stored rules and
\* for the types a user has no stored rule for.
ReportedEnabled(rep, t) == \E r \in rep.rules : r.type = t /\ r.enabled

C40_ReportedRulesAgree ==
    [][\A u \in AllUsers :
          (GetNotificationRules(u) \/ GetNotificationRulesThrows(u)) =>
              \A t \in AllTypes :
                  ReportedEnabled(report', t) <=> IsEnabled(rules[u][t])]_vars

====
